---- MODULE Spec2Model ----
(***************************************************************************)
(* vite-plugin-deploy-ftp (src/src/index.ts, the multi-destination         *)
(* version that starts at line 125): the plugin hooks, deployToFtp,        *)
(* deploySingleTarget, the two backups (createBackupFile and               *)
(* createSingleBackup) and the upload scheduler uploadFilesInBatches with  *)
(* its workers, uploadFileWithRetry and connectWithRetry.                  *)
(*                                                                         *)
(* JavaScript runs one continuation at a time, so each action below is the *)
(* code that runs between two awaits: the awaited operation completes      *)
(* (successfully or not) and the continuation runs up to the next await.   *)
(* The FTP server, the prompts and the local file system are the           *)
(* environment: every network call, every stat and every removal may       *)
(* succeed or fail, and a prompt may return any of its choices.            *)
(*                                                                         *)
(* Remote paths are kept as [abs, segs]: whether the path starts with '/'  *)
(* and its sequence of segments.  A session has a working directory, as    *)
(* basic-ftp's Client has: access() starts in the login directory,         *)
(* ensureDir(p) leaves the working directory at p (from '/' when p is      *)
(* absolute, from the working directory otherwise) and uploadFrom(f, name) *)
(* stores under the working directory.  A Client runs one task at a time:  *)
(* a task launched while another one runs closes the client with an error  *)
(* and both tasks fail.                                                    *)
(***************************************************************************)
EXTENDS Integers, Sequences, FiniteSets, TLC

\* ------------------------------------------------------------------ bounds
MaxFiles == 2
MaxConcurrency == 2
MaxRetriesOpt == 2
MaxFtps == 2
MaxRemote == 2
\* the runs of the whole plugin use smaller uploads and one more retry
MaxDeployFiles == 1
MaxDeployConcurrency == 1
MaxDeployRetries == 3
\* the longest targetDir and relativeFilePath given to normalizeRemotePath
MaxDirLen == 3
MaxRelLen == 3

\* ------------------------------------------------------------- environment
\* retryDelay = 1000 by default, in milliseconds
DefaultRetryDelay == 1000
Home == <<"home">>
UploadRoot == <<"up">>
RelDirs == {<<>>, <<"assets">>}
FileNames == <<"f1", "f2", "f3", "f4", "f5", "f6">>
FtpNames == <<"s1", "s2", "s3", "s4">>

VARIABLES
  \* the plugin's options
  open, autoUpload, failOnError, singleBack, singleBackFiles,
  isMultiFtp, ftpConfigs, defaultFtp, maxRetries, retryDelay, concurrency,
  uploadPath,
  \* the local file system under outDir: whether readdirSync/statSync
  \* succeed on it, and the files getAllFiles finds
  outDirReadable, localFiles,
  \* the plugin's closure variables and the hook that runs next
  hookPc, upload, buildFailed, resolvedConfig,
  \* deployToFtp
  dpPc, selectedConfigs, destIdx, deployResults,
  \* deploySingleTarget: position, preflightClient, fileList, returned value
  tgPc, pre, listing, tgResult,
  \* createBackupFile / createSingleBackup: locals, and whether the staging
  \* directory and the zip file exist on the local disk
  bk, staging, zipFile,
  \* uploadFilesInBatches
  files,          \* files (relative paths, as [dir, name])
  upPc,           \* "idle", "stat", "running", "returned"
  tasks, results, completed, failed, uploadedBytes, retries, currentIndex,
  wk,             \* the workers: worker number -> its locals and position
  openSessions,   \* sessions (Client objects) whose connection is open
  remoteFiles,    \* what this run stored on the server: [path, content]
  claimCount,     \* history: task index -> how many times it was claimed
  attemptLog,     \* history: task index -> outcome of each attempt, in order
  \* one call of normalizeRemotePath on strings (sequences of characters):
  \* its position, its arguments targetDir and relativeFilePath, and its
  \* returned value
  pathPc, pathDir, pathRel, pathOut

optVars == <<open, autoUpload, failOnError, singleBack, singleBackFiles,
             isMultiFtp, ftpConfigs, defaultFtp, maxRetries, retryDelay,
             concurrency, uploadPath>>
pathVars == <<pathPc, pathDir, pathRel, pathOut>>
envVars == <<outDirReadable, localFiles>>
hookVars == <<hookPc, upload, buildFailed, resolvedConfig>>
dpVars == <<dpPc, selectedConfigs, destIdx, deployResults>>
tgVars == <<tgPc, pre, listing, tgResult>>
bkVars == <<bk, staging, zipFile>>
schedVars == <<files, upPc, tasks, results, completed, failed, uploadedBytes,
               retries, currentIndex, wk, claimCount, attemptLog>>
outerVars == <<pathVars, optVars, envVars, hookVars, dpVars, tgVars, bkVars>>
vars == <<optVars, envVars, hookVars, dpVars, tgVars, bkVars, schedVars,
          openSessions, remoteFiles, pathVars>>

\* ------------------------------------------------------------------ helpers
Max(a, b) == IF a >= b THEN a ELSE b
Min(a, b) == IF a <= b THEN a ELSE b

RECURSIVE SumSeq(_)
SumSeq(s) == IF s = <<>> THEN 0 ELSE Head(s) + SumSeq(Tail(s))

Indices(s) == [i \in 1..Len(s) |-> i]

\* path.posix.dirname / basename of a remote path with at least one segment
dirname(p) == [abs |-> p.abs, segs |-> SubSeq(p.segs, 1, Len(p.segs) - 1)]
basename(p) == p.segs[Len(p.segs)]

\* normalizeRemotePath(targetDir, relativeFilePath) on segments
RemotePathOf(targetDir, rel) ==
  [abs |-> targetDir.abs, segs |-> targetDir.segs \o rel.dir \o <<rel.name>>]

\* the place a remote path names for a session that has just logged in
Resolve(p) == IF p.abs THEN p.segs ELSE Home \o p.segs

\* basic-ftp ensureDir: cd '/' when absolute, then MKD + CWD per segment
CwdAfterEnsureDir(cwd, dir) == (IF dir.abs THEN <<>> ELSE cwd) \o dir.segs

NoError == [kind |-> "none", attempt |-> 0]
NoPath == [abs |-> FALSE, segs |-> <<>>]
NoResult == [file |-> 0, name |-> NoPath, success |-> FALSE, size |-> 0,
             retries |-> 0, error |-> NoError]

\* the error of the n-th client.access() of a connectWithRetry call, the
\* error connectWithRetry throws (its message embeds lastError's), and the
\* error of a failed ensureDir or uploadFrom
AccessError(n) == [kind |-> "access", attempt |-> n]
ConnectError(tries, lastError) ==
  [kind |-> "connect", tries |-> tries, cause |-> AccessError(lastError)]
TransferError == [kind |-> "transfer"]
NoCaught == [kind |-> "none"]

\* sleep(retryDelay * attempt): the delay
\* (faulty variant: the delay does not grow with the attempt)
BackoffFlat(delay, attempt) == delay
Backoff(delay, attempt) == delay * attempt

\* one worker's Client
\* const client = new Client() in the worker's body: one client per worker
\* (faulty variant: one client created outside and used by every worker)
ClientShared(w) == 1
ClientOf(w) == w
SessionOf(w) == <<destIdx, ClientOf(w)>>

\* ---------------------------------------------------------------- the code
\* const index = currentIndex++  (the value currentIndex has afterwards)
\* (faulty variants: the counter is not advanced, or advanced twice)
NextIndexStale(i) == i
NextIndexSkip(i) == i + 2
NextIndex(i) == i + 1

\* retries: attempt - 1 in both results of uploadFileWithRetry
\* (faulty variant: the attempts are counted, not the retries)
RetriesUsedOffByOne(attempt) == attempt
RetriesUsed(attempt) == attempt - 1

\* Math.max(1, Math.min(windowSize, tasks.length || 1))
\* (faulty variant: the window is not clamped to the number of tasks)
safeWindowSizeUnclamped(windowSize, nTasks) == Max(1, windowSize)
safeWindowSize(windowSize, nTasks) ==
  Max(1, Min(windowSize, IF nTasks = 0 THEN 1 ELSE nTasks))

\* the result uploadFileWithRetry returns on success, and after the last attempt
SuccessResult(task, attempt) ==
  [file |-> task.file, name |-> task.remotePath, success |-> TRUE,
   size |-> task.size, retries |-> RetriesUsed(attempt), error |-> NoError]
FailedResult(task, attempt, err) ==
  [file |-> task.file, name |-> task.remotePath, success |-> FALSE,
   size |-> task.size, retries |-> RetriesUsed(attempt), error |-> err]
\* the result of a file whose stat failed
StatFailedResult(i) ==
  [file |-> i, name |-> RemotePathOf(uploadPath, files[i]), success |-> FALSE,
   size |-> 0, retries |-> 0, error |-> [kind |-> "stat", attempt |-> 0]]

\* finally { client.close() } of a worker: the sessions left open
\* (faulty variant: the client is left open)
WorkerFinallyLeak(sessions, w) == sessions
WorkerFinally(sessions, w) == sessions \ {SessionOf(w)}

\* await Promise.all(workers): every worker has returned
\* (faulty variant: Promise.race, the first worker to return is enough)
WorkersSettledRace(ws) == \E w \in DOMAIN ws : ws[w].pc = "done"
WorkersSettled(ws) == \A w \in DOMAIN ws : ws[w].pc = "done"

\* lastError: the attempt whose error connectWithRetry holds in lastError
\* (0: undefined); sleepMs: the delay of the sleep the worker is in;
\* caught: the error the catch block of uploadFileWithRetry has just caught;
\* handshakes is history: the connectWithRetry calls of this worker that
\* have returned since its last failed upload attempt
NewWorker ==
  [pc |-> "done", index |-> 0, attempt |-> 0, connAttempt |-> 0,
   connected |-> FALSE, ensuredDirs |-> {}, cwd |-> <<>>, result |-> NoResult,
   lastError |-> 0, sleepMs |-> 0, caught |-> NoCaught,
   handshakes |-> 0]

\* remoteDir && remoteDir !== '.' && !context.ensuredDirs.has(remoteDir)
NeedsEnsureDir(me, task) ==
  LET remoteDir == dirname(task.remotePath)
  IN /\ ~(~remoteDir.abs /\ remoteDir.segs = <<>>)
     /\ remoteDir \notin me.ensuredDirs

\* uploadFileWithRetry once the worker is connected: up to the next network
\* call, which is ensureDir unless the directory is cached
AfterConnected(me, task) ==
  [me EXCEPT !.pc = IF NeedsEnsureDir(me, task) THEN "ensureDir" ELSE "uploadFrom"]

\* await context.ensureConnected() at the head of an attempt: nothing when
\* connected, else connectWithRetry and its first client.access()
\* (faulty variant: the connection flag is not looked at)
ensureConnectedAlways(me, task) ==
  [me EXCEPT !.pc = "access", !.connAttempt = 1, !.lastError = 0]
ensureConnected(me, task) ==
  IF me.connected THEN AfterConnected(me, task)
  ELSE [me EXCEPT !.pc = "access", !.connAttempt = 1, !.lastError = 0]

\* the worker's loop head: claim index; return when it is past the tasks,
\* otherwise start uploadFileWithRetry at attempt 1
WorkerAt(me, index, ts) ==
  IF index >= Len(ts)
    THEN [me EXCEPT !.pc = "done", !.result = NoResult, !.caught = NoCaught]
    ELSE ensureConnected([me EXCEPT !.index = index, !.attempt = 1,
                                    !.result = NoResult, !.caught = NoCaught],
                         ts[index + 1])

\* the index the w-th launched worker claims: the workers start one after
\* another inside Array.from, each running to its first await
RECURSIVE ClaimedAtLaunch(_)
ClaimedAtLaunch(w) == IF w = 1 THEN 0 ELSE NextIndex(ClaimedAtLaunch(w - 1))

Bump(f, i) == IF i \in DOMAIN f THEN [f EXCEPT ![i] = @ + 1] ELSE f

\* uploadFilesInBatches, from the resolution of Promise.all(stat...) to
\* await Promise.all(workers): the stat results, the counters, the launch
StatDone ==
  /\ upPc = "stat"
  /\ \E ok \in SUBSET (1..Len(files)) :
       LET okIdx == SelectSeq(Indices(files), LAMBDA i : i \in ok)
           badIdx == SelectSeq(Indices(files), LAMBDA i : i \notin ok)
           ts == [k \in 1..Len(okIdx) |->
                    [file |-> okIdx[k],
                     remotePath |-> RemotePathOf(uploadPath, files[okIdx[k]]),
                     size |-> okIdx[k]]]
           n == safeWindowSize(concurrency, Len(ts))
           claimed == [w \in 1..n |-> ClaimedAtLaunch(w)]
       IN /\ tasks' = ts
          /\ results' = [k \in 1..Len(badIdx) |-> StatFailedResult(badIdx[k])]
          /\ failed' = Len(badIdx)
          /\ completed' = Len(badIdx)
          /\ uploadedBytes' = 0
          /\ retries' = 0
          /\ currentIndex' = NextIndex(ClaimedAtLaunch(n))
          /\ wk' = [w \in 1..n |-> WorkerAt(NewWorker, claimed[w], ts)]
          /\ claimCount' = [i \in 0..(Len(ts) - 1) |->
                              Cardinality({w \in 1..n : claimed[w] = i})]
          /\ attemptLog' = [i \in 0..(Len(ts) - 1) |-> <<>>]
  /\ upPc' = "running"
  /\ UNCHANGED <<outerVars, files, openSessions, remoteFiles>>

TaskOf(w) == tasks[wk[w].index + 1]

\* markDisconnected(): connected = false; ensuredDirs.clear()
\* (faulty variant: the flag and the cache are left as they are)
markDisconnectedNot(me) == me
\* (faulty variant: the cache is not cleared)
markDisconnectedKeepsCache(me) == [me EXCEPT !.connected = FALSE]
markDisconnected(me) == [me EXCEPT !.connected = FALSE, !.ensuredDirs = {}]

\* if (attempt === context.maxRetries): the caught error ends the task
\* (faulty variant: an error of connectWithRetry ends the task at once)
IsLastAttemptOrConnect(attempt, error) ==
  attempt = maxRetries \/ error.kind = "connect"
IsLastAttempt(attempt, error) == attempt = maxRetries

\* the catch block of uploadFileWithRetry: markDisconnected, close, and the
\* failed result after the last attempt or the backoff sleep otherwise
AttemptFailed(w, error) ==
  LET me == wk[w]
      err == [kind |-> "error", attempt |-> me.attempt]
      off == [markDisconnected(me) EXCEPT
                        !.connAttempt = 0, !.cwd = <<>>, !.lastError = 0,
                        !.caught = error, !.handshakes = 0]
  IN /\ openSessions' = openSessions \ {SessionOf(w)}
     /\ attemptLog' = [attemptLog EXCEPT ![me.index] = Append(@, err)]
     /\ wk' = [wk EXCEPT ![w] =
                 IF IsLastAttempt(me.attempt, error)
                   THEN [off EXCEPT !.pc = "resolved",
                                    !.result = FailedResult(TaskOf(w), me.attempt, err)]
                   ELSE [off EXCEPT !.pc = "retrySleep",
                                    !.sleepMs = Backoff(retryDelay, me.attempt)]]

\* connectWithRetry: one client.access(); on failure sleep when attempts are
\* left, throw after the last one
AccessOk(w) ==
  /\ upPc = "running"
  /\ wk[w].pc = "access"
  /\ wk' = [wk EXCEPT ![w] =
              AfterConnected([@ EXCEPT !.connected = TRUE, !.connAttempt = 0,
                                       !.lastError = 0, !.cwd = Home,
                                       !.handshakes = @ + 1],
                             TaskOf(w))]
  /\ openSessions' = openSessions \cup {SessionOf(w)}
  /\ UNCHANGED <<outerVars, files, upPc, tasks, results, completed, failed,
                 uploadedBytes, retries, currentIndex, remoteFiles,
                 claimCount, attemptLog>>

AccessFail(w) ==
  /\ upPc = "running"
  /\ wk[w].pc = "access"
  /\ IF wk[w].connAttempt < maxRetries
       THEN /\ wk' = [wk EXCEPT ![w] =
                        [@ EXCEPT !.pc = "connectSleep",
                                  !.lastError = wk[w].connAttempt,
                                  !.sleepMs = Backoff(retryDelay, wk[w].connAttempt)]]
            /\ UNCHANGED <<openSessions, attemptLog>>
       ELSE AttemptFailed(w, ConnectError(maxRetries, wk[w].connAttempt))
  /\ UNCHANGED <<outerVars, files, upPc, tasks, results, completed, failed,
                 uploadedBytes, retries, currentIndex, remoteFiles, claimCount>>

\* await sleep(retryDelay * attempt) inside connectWithRetry
ConnectSleep(w) ==
  /\ upPc = "running"
  /\ wk[w].pc = "connectSleep"
  /\ wk' = [wk EXCEPT ![w] = [@ EXCEPT !.pc = "access", !.sleepMs = 0,
                                       !.connAttempt = @ + 1]]
  /\ UNCHANGED <<outerVars, files, upPc, tasks, results, completed, failed,
                 uploadedBytes, retries, currentIndex, openSessions,
                 remoteFiles, claimCount, attemptLog>>

\* await context.client.ensureDir(remoteDir); context.ensuredDirs.add(remoteDir)
EnsureDirOk(w) ==
  /\ upPc = "running"
  /\ wk[w].pc = "ensureDir"
  /\ LET remoteDir == dirname(TaskOf(w).remotePath)
     IN wk' = [wk EXCEPT ![w] =
                 [@ EXCEPT !.pc = "uploadFrom",
                           !.cwd = CwdAfterEnsureDir(@, remoteDir),
                           !.ensuredDirs = @ \cup {remoteDir}]]
  /\ UNCHANGED <<outerVars, files, upPc, tasks, results, completed, failed,
                 uploadedBytes, retries, currentIndex, openSessions,
                 remoteFiles, claimCount, attemptLog>>

EnsureDirFail(w) ==
  /\ upPc = "running"
  /\ wk[w].pc = "ensureDir"
  /\ AttemptFailed(w, TransferError)
  /\ UNCHANGED <<outerVars, files, upPc, tasks, results, completed, failed,
                 uploadedBytes, retries, currentIndex, remoteFiles, claimCount>>

\* client.uploadFrom(task.filePath, basename(task.remotePath))
UploadFromOk(w) ==
  /\ upPc = "running"
  /\ wk[w].pc = "uploadFrom"
  /\ LET task == TaskOf(w)
         at == wk[w].cwd \o <<basename(task.remotePath)>>
     IN /\ remoteFiles' = {f \in remoteFiles : f.path # at}
                            \cup {[path |-> at, content |-> task.file]}
        /\ wk' = [wk EXCEPT ![w] = [@ EXCEPT !.pc = "resolved",
                                    !.result = SuccessResult(task, wk[w].attempt)]]
        /\ attemptLog' = [attemptLog EXCEPT ![wk[w].index] =
                            Append(@, [kind |-> "ok", attempt |-> wk[w].attempt])]
  /\ UNCHANGED <<outerVars, files, upPc, tasks, results, completed, failed,
                 uploadedBytes, retries, currentIndex, openSessions, claimCount>>

UploadFromFail(w) ==
  /\ upPc = "running"
  /\ wk[w].pc = "uploadFrom"
  /\ AttemptFailed(w, TransferError)
  /\ UNCHANGED <<outerVars, files, upPc, tasks, results, completed, failed,
                 uploadedBytes, retries, currentIndex, remoteFiles, claimCount>>

\* await sleep(context.retryDelay * attempt), then the next attempt, which
\* starts with ensureConnected
RetrySleep(w) ==
  /\ upPc = "running"
  /\ wk[w].pc = "retrySleep"
  /\ wk' = [wk EXCEPT ![w] =
              ensureConnected([@ EXCEPT !.attempt = @ + 1, !.sleepMs = 0,
                                        !.caught = NoCaught], TaskOf(w))]
  /\ UNCHANGED <<outerVars, files, upPc, tasks, results, completed, failed,
                 uploadedBytes, retries, currentIndex, openSessions,
                 remoteFiles, claimCount, attemptLog>>

\* the worker after await uploadFileWithRetry: the counters, results.push,
\* and the next turn of while (true) up to its first network call; the
\* finally block closes the client when the worker returns
\* if (result.success) uploadedBytes += result.size
\* (faulty variant: the size is added whatever the outcome)
UploadedBytesAfterAny(bytes, result) == bytes + result.size
UploadedBytesAfter(bytes, result) ==
  IF result.success THEN bytes + result.size ELSE bytes

\* results.push(result)
\* (faulty variant: the result is not recorded)
ResultsAfterDropped(rs, result) == rs
ResultsAfter(rs, result) == Append(rs, result)

WorkerResume(w) ==
  /\ upPc = "running"
  /\ wk[w].pc = "resolved"
  /\ LET result == wk[w].result
         index == currentIndex
         next == WorkerAt(wk[w], index, tasks)
     IN /\ completed' = completed + 1
        /\ retries' = retries + result.retries
        /\ uploadedBytes' = UploadedBytesAfter(uploadedBytes, result)
        /\ failed' = IF result.success THEN failed ELSE failed + 1
        /\ results' = ResultsAfter(results, result)
        /\ currentIndex' = NextIndex(currentIndex)
        /\ claimCount' = Bump(claimCount, index)
        /\ wk' = [wk EXCEPT ![w] = next]
        /\ openSessions' = IF next.pc = "done"
                             THEN WorkerFinally(openSessions, w)
                             ELSE openSessions
  /\ UNCHANGED <<outerVars, files, upPc, tasks, remoteFiles, attemptLog>>

\* Promise.all(workers) resolves; uploadFilesInBatches returns results
UploadReturn ==
  /\ upPc = "running"
  /\ WorkersSettled(wk)
  /\ upPc' = "returned"
  /\ UNCHANGED <<outerVars, files, tasks, results, completed, failed,
                 uploadedBytes, retries, currentIndex, wk, openSessions,
                 remoteFiles, claimCount, attemptLog>>

Worker(w) ==
  \/ AccessOk(w)
  \/ AccessFail(w)
  \/ ConnectSleep(w)
  \/ EnsureDirOk(w)
  \/ EnsureDirFail(w)
  \/ UploadFromOk(w)
  \/ UploadFromFail(w)
  \/ RetrySleep(w)
  \/ WorkerResume(w)

UploadNext ==
  \/ StatDone
  \/ \E w \in DOMAIN wk : Worker(w)
  \/ UploadReturn

\* ------------------------------------------------------ the remote listing
\* the names a listing of the target directory may hold, spelled out so
\* that startsWith / endsWith are computed on the characters
Chars(name) ==
  CASE name = "index.html" -> <<"i","n","d","e","x",".","h","t","m","l">>
    [] name = "app.js" -> <<"a","p","p",".","j","s">>
    [] name = "backup_20240101_000000.zip" ->
         <<"b","a","c","k","u","p","_","2","0","2","4","0","1","0","1","_",
           "0","0","0","0","0","0",".","z","i","p">>
    [] name = "backup_notes.zip" ->
         <<"b","a","c","k","u","p","_","n","o","t","e","s",".","z","i","p">>
    [] name = "assets" -> <<"a","s","s","e","t","s">>
    [] name = "link" -> <<"l","i","n","k">>

\* basic-ftp FileType: File = 1, Directory = 2, SymbolicLink = 3
TypeOf(name) ==
  CASE name = "assets" -> 2
    [] name = "link" -> 3
    [] OTHER -> 1

\* the entries a remote directory of the target holds: one regular file
DirEntries(name) == IF TypeOf(name) = 2 THEN <<"logo.png">> ELSE <<>>

RemoteNames == <<"index.html", "app.js", "backup_20240101_000000.zip",
                 "backup_notes.zip", "assets", "link">>

RemoteListings ==
  {SelectSeq(RemoteNames, LAMBDA n : n \in S) :
     S \in {T \in SUBSET {RemoteNames[i] : i \in 1..Len(RemoteNames)} :
              Cardinality(T) <= MaxRemote}}

startsWith(s, prefix) ==
  Len(prefix) <= Len(s) /\ SubSeq(s, 1, Len(prefix)) = prefix
endsWith(s, suffix) ==
  Len(suffix) <= Len(s) /\ SubSeq(s, Len(s) - Len(suffix) + 1, Len(s)) = suffix

\* file.name.startsWith('backup_') && file.name.endsWith('.zip')
IsBackupName(name) ==
  /\ startsWith(Chars(name), <<"b","a","c","k","u","p","_">>)
  /\ endsWith(Chars(name), <<".","z","i","p">>)

\* ------------------------------------------------------------ preflightClient
PreSession == <<destIdx, 0>>
\* connectFailed is history: connectWithRetry threw for this destination
\* lastError, sleepMs as for a worker; thrown: what connectWithRetry threw
NewPre == [connAttempt |-> 0, busy |-> 0, closedByError |-> FALSE,
           connectFailed |-> FALSE, lastError |-> 0, sleepMs |-> 0,
           thrown |-> NoCaught]
NoBackup == [fn |-> "none", pc |-> "idle", queue |-> <<>>, downloaded |-> 0,
             sb |-> <<>>, batch |-> 0, backedUpCount |-> 0,
             rmDirFailed |-> FALSE, rmZipFailed |-> FALSE]
\* error: "none" when the field is absent, else the step that threw
NoTargetResult == [name |-> "", totalFiles |-> 0, failedCount |-> 0,
                   error |-> "none"]

\* (faulty variant: the password is not required)
validateFtpConfigNoPassword(config) == config.host /\ config.user
validateFtpConfig(config) == config.host /\ config.user /\ config.password

\* failedCount: totalFiles > 0 ? totalFiles : 1 in the catch block
\* (faulty variant: the catch block reports no failed file)
FailedCountOnErrorZero(totalFiles) == 0
FailedCountOnError(totalFiles) == IF totalFiles > 0 THEN totalFiles ELSE 1

\* ------------------------------------------------------- uploadFilesInBatches
\* the call of uploadFilesInBatches(connectConfig, allFiles, uploadPath,
\* concurrency), up to await Promise.all(files.map(stat))
StartUpload ==
  /\ tgPc' = "upload"
  /\ files' = localFiles
  /\ upPc' = "stat"
  /\ tasks' = <<>>
  /\ results' = <<>>
  /\ completed' = 0
  /\ failed' = 0
  /\ uploadedBytes' = 0
  /\ retries' = 0
  /\ currentIndex' = 0
  /\ wk' = <<>>
  /\ claimCount' = <<>>
  /\ attemptLog' = <<>>

IdleUpload ==
  /\ files' = <<>>
  /\ upPc' = "idle"
  /\ tasks' = <<>>
  /\ results' = <<>>
  /\ completed' = 0
  /\ failed' = 0
  /\ uploadedBytes' = 0
  /\ retries' = 0
  /\ currentIndex' = 0
  /\ wk' = <<>>
  /\ claimCount' = <<>>
  /\ attemptLog' = <<>>

\* ----------------------------------------------------------- deploySingleTarget
CurrentConfig == selectedConfigs[destIdx]

\* the catch block and the finally block of deploySingleTarget
TargetCatch(error) ==
  /\ tgResult' = [name |-> CurrentConfig.name,
                  totalFiles |-> Len(localFiles),
                  failedCount |-> FailedCountOnError(Len(localFiles)),
                  error |-> error]
  /\ tgPc' = "returned"
  /\ openSessions' = openSessions \ {PreSession}

\* connectWithRetry(preflightClient, ...): one client.access()
PreflightAccessOk ==
  /\ tgPc = "access"
  /\ tgPc' = "ensureDir"
  /\ pre' = [pre EXCEPT !.connAttempt = 0, !.lastError = 0]
  /\ openSessions' = openSessions \cup {PreSession}
  /\ UNCHANGED <<pathVars, optVars, envVars, hookVars, dpVars, listing, tgResult,
                 bkVars, schedVars, remoteFiles>>

PreflightAccessFail ==
  /\ tgPc = "access"
  /\ IF pre.connAttempt < maxRetries
       THEN /\ tgPc' = "connectSleep"
            /\ pre' = [pre EXCEPT !.lastError = pre.connAttempt,
                                  !.sleepMs = Backoff(retryDelay, pre.connAttempt)]
            /\ UNCHANGED <<tgResult, openSessions>>
       ELSE /\ pre' = [pre EXCEPT !.connectFailed = TRUE, !.lastError = 0,
                                  !.thrown = ConnectError(maxRetries,
                                                          pre.connAttempt)]
            /\ TargetCatch("connect")
  /\ UNCHANGED <<pathVars, optVars, envVars, hookVars, dpVars, listing,
                 bkVars, schedVars, remoteFiles>>

PreflightConnectSleep ==
  /\ tgPc = "connectSleep"
  /\ tgPc' = "access"
  /\ pre' = [pre EXCEPT !.connAttempt = @ + 1, !.sleepMs = 0]
  /\ UNCHANGED <<pathVars, optVars, envVars, hookVars, dpVars, listing, tgResult,
                 bkVars, schedVars, openSessions, remoteFiles>>

\* await preflightClient.ensureDir(uploadPath)
PreflightEnsureDirOk ==
  /\ tgPc = "ensureDir"
  /\ tgPc' = "list"
  /\ UNCHANGED <<pathVars, optVars, envVars, hookVars, dpVars, pre, listing, tgResult,
                 bkVars, schedVars, openSessions, remoteFiles>>

PreflightEnsureDirFail ==
  /\ tgPc = "ensureDir"
  /\ TargetCatch("ensureDir")
  /\ UNCHANGED <<pathVars, optVars, envVars, hookVars, dpVars, pre, listing,
                 bkVars, schedVars, remoteFiles>>

\* createTempDir(...), whose mkdirSync may throw, and the backup function
\* up to await client.list(dir)
StartBackup(fn) ==
  /\ tgPc' = "backup"
  /\ zipFile' = FALSE
  /\ \E mkdirOk \in BOOLEAN :
       /\ staging' = mkdirOk
       /\ bk' = [NoBackup EXCEPT !.fn = fn,
                                 !.pc = IF mkdirOk THEN "list" ELSE "threw"]

\* if (fileList.length)
\* (faulty variant: the backup branch is taken whatever the listing holds)
HasRemoteEntriesAlways(fileList) == TRUE
HasRemoteEntries(fileList) == Len(fileList) > 0

\* const fileList = await preflightClient.list(uploadPath), and what
\* follows up to the next await: the backup, the prompt or the upload
PreflightListOk ==
  /\ tgPc = "list"
  /\ \E l \in RemoteListings :
       /\ listing' = l
       /\ IF HasRemoteEntries(l)
            THEN IF singleBack
                   THEN /\ StartBackup("single")
                        /\ UNCHANGED schedVars
                   ELSE /\ tgPc' = "promptBackup"
                        /\ UNCHANGED <<bkVars, schedVars>>
            ELSE /\ StartUpload
                 /\ UNCHANGED bkVars
  /\ UNCHANGED <<pathVars, optVars, envVars, hookVars, dpVars, pre, tgResult,
                 openSessions, remoteFiles>>

PreflightListFail ==
  /\ tgPc = "list"
  /\ TargetCatch("list")
  /\ UNCHANGED <<pathVars, optVars, envVars, hookVars, dpVars, pre, listing,
                 bkVars, schedVars, remoteFiles>>

\* const shouldBackup = await select(...)
PromptBackup ==
  /\ tgPc = "promptBackup"
  /\ \E shouldBackup \in BOOLEAN :
       IF shouldBackup
         THEN /\ StartBackup("full")
              /\ UNCHANGED <<listing, schedVars>>
         ELSE /\ StartUpload
              /\ listing' = <<>>
              /\ UNCHANGED bkVars
  /\ UNCHANGED <<pathVars, optVars, envVars, hookVars, dpVars, pre, tgResult,
                 openSessions, remoteFiles>>

\* ------------------------------------------------------------- the backups
\* tempDir.cleanup(): rmSync in a try/catch that only warns
\* (faulty variant: the directory is never removed)
StagingAfterNoCleanup(exists, rmOk) == exists
StagingAfterCleanup(exists, rmOk) == exists /\ ~rmOk

\* the finally block of createBackupFile and of createSingleBackup, after
\* which the function has returned or thrown (outcome); zipMade: the zip
\* file exists when the block starts
BackupFinally(outcome, zipMade) ==
  \E rmDirOk, rmZipOk \in BOOLEAN :
    /\ staging' = StagingAfterCleanup(staging, rmDirOk)
    /\ zipFile' = (zipMade /\ ~rmZipOk)
    /\ bk' = [bk EXCEPT !.pc = outcome, !.queue = <<>>,
                        !.rmDirFailed = ~rmDirOk,
                        !.rmZipFailed = zipMade /\ ~rmZipOk]

\* catch (error) { ...; throw error } of a backup function
BackupRethrow(zipMade) == BackupFinally("threw", zipMade)

InBackup(fn, pc) == tgPc = "backup" /\ bk.fn = fn /\ bk.pc = pc

\* createBackupFile: const remoteFiles = await client.list(dir), the filter,
\* and the loop up to its first download
BackupListOk ==
  /\ InBackup("full", "list")
  /\ LET filteredFiles == SelectSeq(listing, LAMBDA n : ~IsBackupName(n))
         toDownload == SelectSeq(filteredFiles, LAMBDA n : TypeOf(n) = 1)
     IN bk' = [bk EXCEPT !.queue = toDownload,
                         !.pc = IF toDownload = <<>> THEN "zip" ELSE "download"]
  /\ UNCHANGED <<pathVars, optVars, envVars, hookVars, dpVars, tgVars, staging, zipFile,
                 schedVars, openSessions, remoteFiles>>

BackupListFail ==
  /\ InBackup("full", "list")
  /\ BackupRethrow(FALSE)
  /\ UNCHANGED <<pathVars, optVars, envVars, hookVars, dpVars, tgVars,
                 schedVars, openSessions, remoteFiles>>

\* await client.downloadTo(path.join(tempDir.path, file.name), ...)
BackupDownloadOk ==
  /\ InBackup("full", "download")
  /\ bk' = [bk EXCEPT !.queue = Tail(@), !.downloaded = @ + 1,
                      !.pc = IF Tail(bk.queue) = <<>> THEN "zip" ELSE "download"]
  /\ UNCHANGED <<pathVars, optVars, envVars, hookVars, dpVars, tgVars, staging, zipFile,
                 schedVars, openSessions, remoteFiles>>

BackupDownloadFail ==
  /\ InBackup("full", "download")
  /\ BackupRethrow(FALSE)
  /\ UNCHANGED <<pathVars, optVars, envVars, hookVars, dpVars, tgVars,
                 schedVars, openSessions, remoteFiles>>

\* await createZipFile(tempDir.path, zipFilePath)
BackupZipOk ==
  /\ InBackup("full", "zip")
  /\ zipFile' = TRUE
  /\ bk' = [bk EXCEPT !.pc = "uploadZip"]
  /\ UNCHANGED <<pathVars, optVars, envVars, hookVars, dpVars, tgVars, staging,
                 schedVars, openSessions, remoteFiles>>

BackupZipFail ==
  /\ InBackup("full", "zip")
  /\ \E zipMade \in BOOLEAN : BackupRethrow(zipMade)
  /\ UNCHANGED <<pathVars, optVars, envVars, hookVars, dpVars, tgVars,
                 schedVars, openSessions, remoteFiles>>

\* the archive on the server: content -1 - (number of files in it)
ArchivePath == Resolve(uploadPath) \o <<"backup_<timestamp>.zip">>

\* await client.uploadFrom(zipFilePath, normalizePath(`${dir}/${fileName}`))
BackupUploadOk ==
  /\ InBackup("full", "uploadZip")
  /\ remoteFiles' = remoteFiles \cup
                      {[path |-> ArchivePath, content |-> -1 - bk.downloaded]}
  /\ BackupFinally("returned", zipFile)
  /\ UNCHANGED <<pathVars, optVars, envVars, hookVars, dpVars, tgVars,
                 schedVars, openSessions>>

BackupUploadFail ==
  /\ InBackup("full", "uploadZip")
  /\ BackupRethrow(zipFile)
  /\ UNCHANGED <<pathVars, optVars, envVars, hookVars, dpVars, tgVars,
                 schedVars, openSessions, remoteFiles>>

\* createSingleBackup: const concurrencyLimit = 3
concurrencyLimit == 3

BatchOf(b, n) == {i \in 1..n : b <= i /\ i < b + concurrencyLimit}

\* the batch that starts at b: every file's async function runs up to its
\* await client.downloadTo(...)
StartBatch(sb, b) ==
  [i \in 1..Len(sb) |-> IF i \in BatchOf(b, Len(sb)) THEN "download" ELSE sb[i]]

\* singleBackFiles.map(... remoteFiles.find((f) => f.name === fileName) ...)
\*   .filter((task) => task.exists)
\* (faulty variant: the names that do not exist are kept)
backupTasksUnfiltered(requested, remote) == requested
backupTasksOf(requested, remote) ==
  SelectSeq(requested, LAMBDA n : \E i \in 1..Len(remote) : remote[i] = n)

\* const remoteFiles = await client.list(dir); the requested names that
\* exist; return when there is none, else the first batch
SingleListOk ==
  /\ InBackup("single", "list")
  /\ LET backupTasks == backupTasksOf(singleBackFiles, listing)
     IN IF backupTasks = <<>>
          THEN BackupFinally("returned", FALSE)
          ELSE /\ bk' = [bk EXCEPT !.queue = backupTasks, !.pc = "batch",
                                   !.batch = 1,
                                   !.sb = StartBatch([i \in 1..Len(backupTasks)
                                                        |-> "waiting"], 1)]
               /\ UNCHANGED <<staging, zipFile>>
  /\ UNCHANGED <<pathVars, optVars, envVars, hookVars, dpVars, tgVars,
                 schedVars, openSessions, remoteFiles>>

SingleListFail ==
  /\ InBackup("single", "list")
  /\ BackupRethrow(FALSE)
  /\ UNCHANGED <<pathVars, optVars, envVars, hookVars, dpVars, tgVars,
                 schedVars, openSessions, remoteFiles>>

\* a file's downloadTo or uploadFrom reaches the client: the client runs it
\* when it is idle; a client that an error closed rejects it; a client that
\* runs another task closes with an error, which fails both tasks
SingleIssue(i) ==
  /\ InBackup("single", "batch")
  /\ i \in DOMAIN bk.sb
  /\ bk.sb[i] \in {"download", "upload"}
  /\ IF pre.closedByError
       THEN /\ bk' = [bk EXCEPT !.sb[i] = "failed"]
            /\ UNCHANGED <<pre, openSessions>>
       ELSE IF pre.busy > 0
         THEN /\ bk' = [bk EXCEPT !.sb =
                          [j \in DOMAIN bk.sb |->
                             IF j = i \/ bk.sb[j] \in {"downloading", "uploading"}
                               THEN "failed" ELSE bk.sb[j]]]
              /\ pre' = [pre EXCEPT !.busy = 0, !.closedByError = TRUE]
              /\ openSessions' = openSessions \ {PreSession}
         ELSE /\ bk' = [bk EXCEPT !.sb[i] =
                          IF bk.sb[i] = "download" THEN "downloading"
                          ELSE "uploading"]
              /\ pre' = [pre EXCEPT !.busy = 1]
              /\ UNCHANGED openSessions
  /\ UNCHANGED <<pathVars, optVars, envVars, hookVars, dpVars, tgPc, listing, tgResult,
                 staging, zipFile, schedVars, remoteFiles>>

\* the running transfer of file i completes: the download is followed by
\* the upload under the timestamped name, the upload ends the file's task
SingleTransferOk(i) ==
  /\ InBackup("single", "batch")
  /\ i \in DOMAIN bk.sb
  /\ bk.sb[i] \in {"downloading", "uploading"}
  /\ bk' = [bk EXCEPT !.sb[i] = IF bk.sb[i] = "downloading" THEN "upload"
                                ELSE "ok"]
  /\ pre' = [pre EXCEPT !.busy = 0]
  /\ UNCHANGED <<pathVars, optVars, envVars, hookVars, dpVars, tgPc, listing, tgResult,
                 staging, zipFile, schedVars, openSessions, remoteFiles>>

\* the transfer fails: the file's catch block returns false
SingleTransferFail(i) ==
  /\ InBackup("single", "batch")
  /\ i \in DOMAIN bk.sb
  /\ bk.sb[i] \in {"downloading", "uploading"}
  /\ bk' = [bk EXCEPT !.sb[i] = "failed"]
  /\ pre' = [pre EXCEPT !.busy = 0]
  /\ UNCHANGED <<pathVars, optVars, envVars, hookVars, dpVars, tgPc, listing, tgResult,
                 staging, zipFile, schedVars, openSessions, remoteFiles>>

\* const results = await Promise.all(promises); backedUpCount += ...; the
\* next batch, or the end of the function
SingleBatchDone ==
  /\ InBackup("single", "batch")
  /\ LET n == Len(bk.sb)
         batch == BatchOf(bk.batch, n)
         count == bk.backedUpCount + Cardinality({i \in batch : bk.sb[i] = "ok"})
         nextB == bk.batch + concurrencyLimit
     IN /\ \A i \in batch : bk.sb[i] \in {"ok", "failed"}
        /\ IF nextB <= n
             THEN /\ bk' = [bk EXCEPT !.batch = nextB, !.backedUpCount = count,
                                      !.sb = StartBatch(bk.sb, nextB)]
                  /\ UNCHANGED <<staging, zipFile>>
             ELSE \E rmDirOk \in BOOLEAN :
                    /\ staging' = StagingAfterCleanup(staging, rmDirOk)
                    /\ zipFile' = FALSE
                    /\ bk' = [bk EXCEPT !.pc = "returned", !.backedUpCount = count,
                                        !.rmDirFailed = ~rmDirOk]
  /\ UNCHANGED <<pathVars, optVars, envVars, hookVars, dpVars, tgVars,
                 schedVars, openSessions, remoteFiles>>

\* the statements after await createBackupFile / createSingleBackup run
\* only when the call returned
\* (faulty variant: the error of the backup is swallowed)
UploadAfterBackupAlways(outcome) == TRUE
UploadAfterBackup(outcome) == outcome = "returned"

\* deploySingleTarget after the backup function has settled: the upload
\* when it returned, the catch block when it threw.  The staging directory
\* and the zip file are followed up to this point only.
TargetAfterBackup ==
  /\ tgPc = "backup"
  /\ bk.pc \in {"returned", "threw"}
  /\ IF ~UploadAfterBackup(bk.pc)
       THEN /\ TargetCatch("backup")
            /\ UNCHANGED <<bkVars, schedVars>>
       ELSE /\ StartUpload
            /\ bk' = [NoBackup EXCEPT !.fn = bk.fn, !.pc = bk.pc]
            /\ staging' = FALSE
            /\ zipFile' = FALSE
            /\ UNCHANGED <<tgResult, openSessions>>
  /\ listing' = <<>>
  /\ UNCHANGED <<pathVars, optVars, envVars, hookVars, dpVars, pre, remoteFiles>>

\* successCount = results.filter((r) => r.success).length and
\* failedCount = results.length - successCount
\* (faulty variant: a file whose stat failed is not counted as failed)
FailedCountAfterUploadTransfersOnly(res) ==
  Cardinality({i \in 1..Len(res) : ~res[i].success /\ res[i].error.kind # "stat"})
FailedCountAfterUpload(res) ==
  LET successCount == Cardinality({i \in 1..Len(res) : res[i].success})
  IN Len(res) - successCount

\* deploySingleTarget after await uploadFilesInBatches: the counts, the
\* returned value, the finally block
TargetAfterUpload ==
  /\ tgPc = "upload"
  /\ upPc = "returned"
  /\ tgResult' = [name |-> CurrentConfig.name,
                  totalFiles |-> Len(results),
                  failedCount |-> FailedCountAfterUpload(results),
                  error |-> "none"]
  /\ tgPc' = "returned"
  /\ openSessions' = openSessions \ {PreSession}
  /\ IdleUpload
  /\ UNCHANGED <<pathVars, optVars, envVars, hookVars, dpVars, pre, listing, bkVars,
                 remoteFiles>>

\* ------------------------------------------------------------- deployToFtp
\* the sequences made of the elements of s at the positions in S, in order
Pick(s, S) ==
  LET idx == SelectSeq([i \in 1..Len(s) |-> i], LAMBDA i : i \in S)
  IN [k \in 1..Len(idx) |-> s[idx[k]]]

\* ftpConfigs.find((ftp) => ftp.name === defaultFtp): the index, 0 if none
FindByName(configs, name) ==
  IF \E i \in 1..Len(configs) : configs[i].name = name
    THEN CHOOSE i \in 1..Len(configs) :
           /\ configs[i].name = name
           /\ \A j \in 1..(i - 1) : configs[j].name # name
    ELSE 0

\* validateOptions(): the set of error messages
\* (faulty variant: nothing is validated)
validateOptionsNothing == {}
validateOptions ==
  (IF uploadPath.segs = <<>> /\ ~uploadPath.abs
     THEN {"uploadPath is required"} ELSE {})
  \cup (IF maxRetries < 1 THEN {"maxRetries must be >= 1"} ELSE {})
  \cup (IF retryDelay < 0 THEN {"retryDelay must be >= 0"} ELSE {})
  \cup (IF concurrency < 1 THEN {"concurrency must be >= 1"} ELSE {})
  \cup (IF isMultiFtp
          THEN (IF Len(ftpConfigs) = 0
                  THEN {"ftps is required and must not be empty"} ELSE {})
               \cup (IF defaultFtp # "" /\ FindByName(ftpConfigs, defaultFtp) = 0
                       THEN {"defaultFtp does not match any ftp.name"} ELSE {})
               \cup (IF SelectSeq(ftpConfigs, validateFtpConfig) = <<>>
                       THEN {"at least one ftp config requires host, user and password"}
                       ELSE {})
          ELSE (IF ~ftpConfigs[1].host THEN {"host is required"} ELSE {})
               \cup (IF ~ftpConfigs[1].user THEN {"user is required"} ELSE {})
               \cup (IF ~ftpConfigs[1].password
                       THEN {"password is required"} ELSE {}))

\* deployToFtp returns value: the handler continues at its await
DeployReturns(value) ==
  /\ dpPc' = "returned"
  /\ deployResults' = value

\* deployToFtp from the choice of the destinations to the loop or, in the
\* multi-destination mode without a usable default, to the checkbox
SelectDestinations ==
  IF isMultiFtp
    THEN LET d == IF defaultFtp # "" THEN FindByName(ftpConfigs, defaultFtp) ELSE 0
             validConfigs == SelectSeq(ftpConfigs, validateFtpConfig)
         IN IF d # 0 /\ validateFtpConfig(ftpConfigs[d])
              THEN /\ selectedConfigs' = <<ftpConfigs[d]>>
                   /\ dpPc' = "loop"
                   /\ deployResults' = <<>>
              ELSE IF validConfigs = <<>>
                THEN /\ DeployReturns(<<>>)
                     /\ UNCHANGED selectedConfigs
                ELSE /\ dpPc' = "checkbox"
                     /\ UNCHANGED <<selectedConfigs, deployResults>>
    ELSE IF validateFtpConfig(ftpConfigs[1])
      THEN /\ selectedConfigs' = <<ftpConfigs[1]>>
           /\ dpPc' = "loop"
           /\ deployResults' = <<>>
      ELSE /\ DeployReturns(<<>>)
           /\ UNCHANGED selectedConfigs

\* const ftpUploadChoice = await select(...)
PromptUpload ==
  /\ dpPc = "promptUpload"
  /\ \E ftpUploadChoice \in {"yes", "no"} :
       IF ftpUploadChoice = "no"
         THEN /\ DeployReturns(<<>>)
              /\ UNCHANGED selectedConfigs
         ELSE SelectDestinations
  /\ UNCHANGED <<pathVars, optVars, envVars, hookVars, destIdx, tgVars, bkVars,
                 schedVars, openSessions, remoteFiles>>

\* selectedConfigs = await checkbox({ choices: validConfigs, required: true })
Checkbox ==
  /\ dpPc = "checkbox"
  /\ LET validConfigs == SelectSeq(ftpConfigs, validateFtpConfig)
     IN \E S \in SUBSET (1..Len(validConfigs)) :
          /\ S # {}
          /\ selectedConfigs' = Pick(validConfigs, S)
  /\ dpPc' = "loop"
  /\ deployResults' = <<>>
  /\ UNCHANGED <<pathVars, optVars, envVars, hookVars, destIdx, tgVars, bkVars,
                 schedVars, openSessions, remoteFiles>>

\* for (const ftpConfig of selectedConfigs): deploySingleTarget(ftpConfig)
\* up to its first await, or to its return or throw before the try block
\* if (allFiles.length === 0) return { name, totalFiles: 0, failedCount: 0 }
\* (faulty variant: the early return is missing)
NothingToUploadNever(allFiles) == FALSE
NothingToUpload(allFiles) == Len(allFiles) = 0

\* const targetResult = await deploySingleTarget(ftpConfig): the loop goes on
\* when the call has returned and its result is pushed
\* (faulty variant: the call is not awaited)
PreviousTargetDoneNoAwait(pc) == TRUE
PreviousTargetDone(pc) == pc = "idle"

TargetBegin ==
  /\ dpPc = "loop"
  /\ PreviousTargetDone(tgPc)
  /\ destIdx < Len(selectedConfigs)
  /\ destIdx' = destIdx + 1
  /\ remoteFiles' = {}
  /\ LET ftpConfig == selectedConfigs[destIdx + 1]
     IN IF ~validateFtpConfig(ftpConfig)
          THEN /\ tgResult' = [name |-> ftpConfig.name, totalFiles |-> 0,
                               failedCount |-> 1, error |-> "none"]
               /\ tgPc' = "returned"
               /\ UNCHANGED <<dpPc, hookPc, pre>>
          ELSE IF ~outDirReadable
            THEN \* getAllFiles(outDir) throws outside the try block
                 /\ dpPc' = "threw"
                 /\ hookPc' = "threw"
                 /\ UNCHANGED <<tgPc, tgResult, pre>>
            ELSE IF NothingToUpload(localFiles)
              THEN /\ tgResult' = [name |-> ftpConfig.name, totalFiles |-> 0,
                                   failedCount |-> 0, error |-> "none"]
                   /\ tgPc' = "returned"
                   /\ UNCHANGED <<dpPc, hookPc, pre>>
              ELSE /\ tgPc' = "access"
                   /\ pre' = [NewPre EXCEPT !.connAttempt = 1]
                   /\ UNCHANGED <<dpPc, hookPc, tgResult>>
  /\ UNCHANGED <<pathVars, optVars, envVars, upload, buildFailed, resolvedConfig,
                 selectedConfigs, deployResults, listing, bkVars, schedVars,
                 openSessions>>

\* deployResults.push(targetResult)
TargetPush ==
  /\ dpPc = "loop"
  /\ tgPc = "returned"
  /\ deployResults' = Append(deployResults, tgResult)
  /\ tgPc' = "idle"
  /\ tgResult' = NoTargetResult
  /\ pre' = NewPre
  /\ listing' = <<>>
  /\ bk' = NoBackup
  /\ staging' = FALSE
  /\ zipFile' = FALSE
  /\ UNCHANGED <<pathVars, optVars, envVars, hookVars, dpPc, selectedConfigs, destIdx,
                 schedVars, openSessions, remoteFiles>>

\* return deployResults
DeployLoopEnd ==
  /\ dpPc = "loop"
  /\ tgPc = "idle"
  /\ destIdx = Len(selectedConfigs)
  /\ dpPc' = "returned"
  /\ UNCHANGED <<pathVars, optVars, envVars, hookVars, selectedConfigs, destIdx,
                 deployResults, tgVars, bkVars, schedVars, openSessions,
                 remoteFiles>>

\* ---------------------------------------------------------------- the hooks
\* config(config)
ConfigHook ==
  /\ hookPc = "config"
  /\ hookPc' = "configResolved"
  /\ upload' = IF ~open \/ buildFailed THEN upload
               ELSE IF validateOptions # {} THEN upload
               ELSE TRUE
  /\ UNCHANGED <<pathVars, optVars, envVars, buildFailed, resolvedConfig, dpVars, tgVars,
                 bkVars, schedVars, openSessions, remoteFiles>>

\* configResolved(config)
ConfigResolvedHook ==
  /\ hookPc = "configResolved"
  /\ hookPc' = "buildEnd"
  /\ resolvedConfig' = TRUE
  /\ UNCHANGED <<pathVars, optVars, envVars, upload, buildFailed, dpVars, tgVars,
                 bkVars, schedVars, openSessions, remoteFiles>>

\* buildEnd(error)
BuildEndHook ==
  /\ hookPc = "buildEnd"
  /\ hookPc' = "closeBundle"
  /\ \E error \in BOOLEAN : buildFailed' = (IF error THEN TRUE ELSE buildFailed)
  /\ UNCHANGED <<pathVars, optVars, envVars, upload, resolvedConfig, dpVars, tgVars,
                 bkVars, schedVars, openSessions, remoteFiles>>

\* closeBundle.handler() up to await deployToFtp(), and deployToFtp up to
\* its first await
CloseBundle ==
  /\ hookPc = "closeBundle"
  /\ IF ~open \/ ~upload \/ buildFailed \/ ~resolvedConfig
       THEN /\ hookPc' = "done"
            /\ UNCHANGED dpVars
       ELSE /\ hookPc' = "running"
            /\ IF ~autoUpload
                 THEN /\ dpPc' = "promptUpload"
                      /\ UNCHANGED <<selectedConfigs, deployResults>>
                 ELSE SelectDestinations
            /\ UNCHANGED destIdx
  /\ UNCHANGED <<pathVars, optVars, envVars, upload, buildFailed, resolvedConfig, tgVars,
                 bkVars, schedVars, openSessions, remoteFiles>>

\* whether the handler throws for these results
\* (faulty variant: an empty list of results counts as a failure)
HandlerThrowsOnEmpty(targets, strict) ==
  strict /\ (Len(targets) = 0
               \/ \E i \in 1..Len(targets) : targets[i].failedCount > 0)
HandlerThrows(targets, strict) ==
  /\ Len(targets) # 0
  /\ (\E i \in 1..Len(targets) : targets[i].failedCount > 0) /\ strict

\* the handler after await deployToFtp()
HandlerFinish ==
  /\ hookPc = "running"
  /\ dpPc = "returned"
  /\ hookPc' = IF HandlerThrows(deployResults, failOnError) THEN "threw"
               ELSE "done"
  /\ UNCHANGED <<pathVars, optVars, envVars, upload, buildFailed, resolvedConfig, dpVars,
                 tgVars, bkVars, schedVars, openSessions, remoteFiles>>

\* ------------------------------------------------------------ the whole run
\* the file lists getAllFiles can produce: the files of one subdirectory are
\* contiguous, the files of the root may come before and after them
FileLists(n) ==
  UNION {
    {fs \in [1..k -> [dir : RelDirs, name : {FileNames[i] : i \in 1..k}]] :
       /\ \A i \in 1..k : fs[i].name = FileNames[i]
       /\ \A i, j \in 1..k :
            (i < j /\ fs[i].dir = fs[j].dir /\ fs[i].dir # <<>>)
              => \A m \in i..j : fs[m].dir = fs[i].dir}
    : k \in 0..n}

\* an FTP destination: its name and whether host, user, password are given
FtpConfig(name, password) ==
  [name |-> name, host |-> TRUE, user |-> TRUE, password |-> password]

FtpLists ==
  UNION {[1..k -> {FtpConfig(FtpNames[i], pw) : i \in 1..k, pw \in BOOLEAN}]
           : k \in 0..MaxFtps}

SingleBackChoices == {<<"index.html">>, <<"index.html", "app.js">>}

RootFileLists(n) == {fs \in FileLists(n) : \A i \in 1..Len(fs) : fs[i].dir = <<>>}

Init ==
  /\ open \in BOOLEAN
  /\ autoUpload \in BOOLEAN
  /\ failOnError \in BOOLEAN
  /\ singleBack \in BOOLEAN
  /\ singleBackFiles \in SingleBackChoices
  /\ singleBack \/ singleBackFiles = <<"index.html">>
  /\ isMultiFtp \in BOOLEAN
  /\ ftpConfigs \in FtpLists
  /\ \A i \in 1..Len(ftpConfigs) : ftpConfigs[i].name = FtpNames[i]
  /\ isMultiFtp \/ Len(ftpConfigs) = 1
  /\ defaultFtp \in {""} \cup {FtpNames[i] : i \in 1..(MaxFtps + 1)}
  /\ isMultiFtp \/ defaultFtp = ""
  /\ maxRetries \in 0..MaxDeployRetries
  /\ retryDelay \in {-1, DefaultRetryDelay}
  /\ concurrency \in 0..MaxDeployConcurrency
  /\ uploadPath \in {[abs |-> FALSE, segs |-> <<>>], [abs |-> TRUE, segs |-> UploadRoot]}
  /\ outDirReadable \in BOOLEAN
  /\ localFiles \in RootFileLists(MaxDeployFiles)
  /\ outDirReadable \/ localFiles = <<>>
  /\ hookPc = "config"
  /\ upload = FALSE
  /\ buildFailed = FALSE
  /\ resolvedConfig = FALSE
  /\ dpPc = "idle"
  /\ selectedConfigs = <<>>
  /\ destIdx = 0
  /\ deployResults = <<>>
  /\ tgPc = "idle"
  /\ pre = NewPre
  /\ listing = <<>>
  /\ tgResult = NoTargetResult
  /\ bk = NoBackup
  /\ staging = FALSE
  /\ zipFile = FALSE
  /\ files = <<>>
  /\ upPc = "idle"
  /\ tasks = <<>>
  /\ results = <<>>
  /\ completed = 0
  /\ failed = 0
  /\ uploadedBytes = 0
  /\ retries = 0
  /\ currentIndex = 0
  /\ wk = <<>>
  /\ openSessions = {}
  /\ remoteFiles = {}
  /\ claimCount = <<>>
  /\ attemptLog = <<>>
  /\ pathPc = "idle"
  /\ pathDir = <<>>
  /\ pathRel = <<>>
  /\ pathOut = <<>>

Hooks == ConfigHook \/ ConfigResolvedHook \/ BuildEndHook \/ CloseBundle
           \/ HandlerFinish

Deploy == PromptUpload \/ Checkbox \/ TargetBegin \/ TargetPush \/ DeployLoopEnd

Preflight == PreflightAccessOk \/ PreflightAccessFail \/ PreflightConnectSleep
               \/ PreflightEnsureDirOk \/ PreflightEnsureDirFail
               \/ PreflightListOk \/ PreflightListFail \/ PromptBackup
               \/ TargetAfterBackup \/ TargetAfterUpload

FullBackup == BackupListOk \/ BackupListFail \/ BackupDownloadOk
                \/ BackupDownloadFail \/ BackupZipOk \/ BackupZipFail
                \/ BackupUploadOk \/ BackupUploadFail

SingleBackup == SingleListOk \/ SingleListFail \/ SingleBatchDone
                  \/ (\E i \in 1..Len(bk.sb) :
                        SingleIssue(i) \/ SingleTransferOk(i) \/ SingleTransferFail(i))

Next == Hooks \/ Deploy \/ Preflight \/ FullBackup \/ SingleBackup \/ UploadNext

Spec == Init /\ [][Next]_vars

\* ---------------------------------------------------- deploySingleTarget alone
\* the destinations deploySingleTarget can be given: any of the three
\* required fields may be empty
AnyFtpConfigs ==
  {[name |-> FtpNames[1], host |-> h, user |-> u, password |-> p] :
     h \in BOOLEAN, u \in BOOLEAN, p \in BOOLEAN}

\* the state at a call of deploySingleTarget(ftpConfig) made outside
\* deployToFtp, with options that passed validateOptions
InitTarget ==
  /\ open = TRUE
  /\ autoUpload = TRUE
  /\ failOnError = TRUE
  /\ singleBack \in BOOLEAN
  /\ singleBackFiles \in SingleBackChoices
  /\ singleBack \/ singleBackFiles = <<"index.html">>
  /\ isMultiFtp = FALSE
  /\ ftpConfigs \in {<<c>> : c \in AnyFtpConfigs}
  /\ defaultFtp = ""
  /\ maxRetries = 1
  /\ retryDelay = DefaultRetryDelay
  /\ concurrency = 1
  /\ uploadPath = [abs |-> TRUE, segs |-> UploadRoot]
  /\ outDirReadable = TRUE
  /\ localFiles \in RootFileLists(MaxDeployFiles)
  /\ hookPc = "direct"
  /\ upload = TRUE
  /\ buildFailed = FALSE
  /\ resolvedConfig = TRUE
  /\ dpPc = "loop"
  /\ selectedConfigs = ftpConfigs
  /\ destIdx = 0
  /\ deployResults = <<>>
  /\ tgPc = "idle"
  /\ pre = NewPre
  /\ listing = <<>>
  /\ tgResult = NoTargetResult
  /\ bk = NoBackup
  /\ staging = FALSE
  /\ zipFile = FALSE
  /\ files = <<>>
  /\ upPc = "idle"
  /\ tasks = <<>>
  /\ results = <<>>
  /\ completed = 0
  /\ failed = 0
  /\ uploadedBytes = 0
  /\ retries = 0
  /\ currentIndex = 0
  /\ wk = <<>>
  /\ openSessions = {}
  /\ remoteFiles = {}
  /\ claimCount = <<>>
  /\ attemptLog = <<>>
  /\ pathPc = "idle"
  /\ pathDir = <<>>
  /\ pathRel = <<>>
  /\ pathOut = <<>>

\* the runs of the plugin together with the direct calls of deploySingleTarget
SpecWithTarget == (Init \/ InitTarget) /\ [][Next]_vars

\* --------------------------------------------------- normalizeRemotePath alone
\* strings are sequences of characters
PathChars == {"/", ".", "a"}
PathStrings(n) == UNION {[1..k -> PathChars] : k \in 0..n}

\* path.split('/')
RECURSIVE Split(_)
Split(s) ==
  IF s = <<>> THEN <<<<>>>>
  ELSE LET r == Split(Tail(s))
       IN IF Head(s) = "/" THEN <<<<>>>> \o r
          ELSE <<<<Head(s)>> \o Head(r)>> \o Tail(r)

\* segments.join('/')
RECURSIVE Join(_)
Join(segs) ==
  IF segs = <<>> THEN <<>>
  ELSE IF Len(segs) = 1 THEN Head(segs)
  ELSE Head(segs) \o <<"/">> \o Join(Tail(segs))

\* node:path normalizeString: empty and '.' segments are dropped, '..'
\* removes the segment before it, or stays when nothing is left to remove
\* and the path is relative
RECURSIVE normalizeString(_, _, _)
normalizeString(segs, res, allowAboveRoot) ==
  IF segs = <<>> THEN res
  ELSE LET g == Head(segs)
           rest == Tail(segs)
       IN IF g = <<>> \/ g = <<".">>
            THEN normalizeString(rest, res, allowAboveRoot)
          ELSE IF g = <<".", ".">>
            THEN IF res # <<>> /\ res[Len(res)] # <<".", ".">>
                   THEN normalizeString(rest, SubSeq(res, 1, Len(res) - 1),
                                        allowAboveRoot)
                 ELSE IF allowAboveRoot
                   THEN normalizeString(rest, Append(res, g), allowAboveRoot)
                 ELSE normalizeString(rest, res, allowAboveRoot)
          ELSE normalizeString(rest, Append(res, g), allowAboveRoot)

\* vite normalizePath(id) = path.posix.normalize(id) on a POSIX host
normalizePath(id) ==
  IF id = <<>> THEN <<".">>
  ELSE LET isAbsolute == Head(id) = "/"
           trailingSeparator == id[Len(id)] = "/"
           path == Join(normalizeString(Split(id), <<>>, ~isAbsolute))
       IN IF path = <<>>
            THEN IF isAbsolute THEN <<"/">>
                 ELSE IF trailingSeparator THEN <<".", "/">> ELSE <<".">>
            ELSE (IF isAbsolute THEN <<"/">> ELSE <<>>)
                   \o path
                   \o (IF trailingSeparator THEN <<"/">> ELSE <<>>)

\* .replace(/\/{2,}/g, '/')
RECURSIVE CollapseSlashes(_)
CollapseSlashes(s) ==
  IF Len(s) < 2 THEN s
  ELSE IF s[1] = "/" /\ s[2] = "/" THEN CollapseSlashes(Tail(s))
  ELSE <<Head(s)>> \o CollapseSlashes(Tail(s))

\* .replace(/^\/+/, '')
\* (faulty variant: the leading separators are kept)
StripLeadingSlashesNot(s) == s
RECURSIVE StripLeadingSlashes(_)
StripLeadingSlashes(s) ==
  IF s # <<>> /\ Head(s) = "/" THEN StripLeadingSlashes(Tail(s)) ELSE s

normalizeRemotePath(targetDir, relativeFilePath) ==
  LET joined == CollapseSlashes(
                  normalizePath(targetDir \o <<"/">> \o relativeFilePath))
  IN IF startsWith(targetDir, <<"/">>)
       THEN IF startsWith(joined, <<"/">>) THEN joined ELSE <<"/">> \o joined
       ELSE StripLeadingSlashes(joined)

\* the call returns
NormalizeRemotePathReturn ==
  /\ pathPc = "call"
  /\ pathOut' = normalizeRemotePath(pathDir, pathRel)
  /\ pathPc' = "returned"
  /\ UNCHANGED <<optVars, envVars, hookVars, dpVars, tgVars, bkVars, schedVars,
                 openSessions, remoteFiles, pathDir, pathRel>>

\* the state at a call of normalizeRemotePath(targetDir, relativeFilePath)
InitPath ==
  /\ open = TRUE
  /\ autoUpload = TRUE
  /\ failOnError = TRUE
  /\ singleBack = FALSE
  /\ singleBackFiles = <<"index.html">>
  /\ isMultiFtp = FALSE
  /\ ftpConfigs = <<FtpConfig(FtpNames[1], TRUE)>>
  /\ defaultFtp = ""
  /\ maxRetries = 1
  /\ retryDelay = DefaultRetryDelay
  /\ concurrency = 1
  /\ uploadPath = [abs |-> TRUE, segs |-> UploadRoot]
  /\ outDirReadable = TRUE
  /\ localFiles = <<>>
  /\ hookPc = "config"
  /\ upload = FALSE
  /\ buildFailed = FALSE
  /\ resolvedConfig = FALSE
  /\ dpPc = "idle"
  /\ selectedConfigs = <<>>
  /\ destIdx = 0
  /\ deployResults = <<>>
  /\ tgPc = "idle"
  /\ pre = NewPre
  /\ listing = <<>>
  /\ tgResult = NoTargetResult
  /\ bk = NoBackup
  /\ staging = FALSE
  /\ zipFile = FALSE
  /\ files = <<>>
  /\ upPc = "idle"
  /\ tasks = <<>>
  /\ results = <<>>
  /\ completed = 0
  /\ failed = 0
  /\ uploadedBytes = 0
  /\ retries = 0
  /\ currentIndex = 0
  /\ wk = <<>>
  /\ openSessions = {}
  /\ remoteFiles = {}
  /\ claimCount = <<>>
  /\ attemptLog = <<>>
  /\ pathPc = "call"
  /\ pathDir \in PathStrings(MaxDirLen)
  /\ pathRel \in PathStrings(MaxRelLen)
  /\ pathOut = <<>>

SpecPath == InitPath /\ [][NormalizeRemotePathReturn]_vars

\* ------------------------------------------------- uploadFilesInBatches alone
\* the state at a call of uploadFilesInBatches by deploySingleTarget
InitUpload ==
  /\ open = TRUE
  /\ autoUpload = TRUE
  /\ failOnError = TRUE
  /\ singleBack = FALSE
  /\ singleBackFiles = <<"index.html">>
  /\ isMultiFtp = FALSE
  /\ ftpConfigs = <<FtpConfig(FtpNames[1], TRUE)>>
  /\ defaultFtp = ""
  /\ maxRetries \in 1..MaxRetriesOpt
  /\ retryDelay = DefaultRetryDelay
  /\ concurrency \in 1..MaxConcurrency
  /\ uploadPath \in {[abs |-> a, segs |-> UploadRoot] : a \in BOOLEAN}
  /\ outDirReadable = TRUE
  /\ localFiles \in FileLists(MaxFiles)
  /\ hookPc = "running"
  /\ upload = TRUE
  /\ buildFailed = FALSE
  /\ resolvedConfig = TRUE
  /\ dpPc = "loop"
  /\ selectedConfigs = ftpConfigs
  /\ destIdx = 1
  /\ deployResults = <<>>
  /\ tgPc = "upload"
  /\ pre = NewPre
  /\ listing = <<>>
  /\ tgResult = NoTargetResult
  /\ bk = NoBackup
  /\ staging = FALSE
  /\ zipFile = FALSE
  /\ files = localFiles
  /\ upPc = "stat"
  /\ tasks = <<>>
  /\ results = <<>>
  /\ completed = 0
  /\ failed = 0
  /\ uploadedBytes = 0
  /\ retries = 0
  /\ currentIndex = 0
  /\ wk = <<>>
  /\ openSessions = {PreSession}
  /\ remoteFiles = {}
  /\ claimCount = <<>>
  /\ attemptLog = <<>>
  /\ pathPc = "idle"
  /\ pathDir = <<>>
  /\ pathRel = <<>>
  /\ pathOut = <<>>

SpecUpload == InitUpload /\ [][UploadNext]_vars

\* the runs of uploadFilesInBatches in which every awaited operation
\* eventually completes
LiveSpecUpload == InitUpload /\ [][UploadNext]_vars /\ WF_vars(UploadNext)

\* ------------------------------------------------------------------ claims
\* the positions of results that belong to input file i
ResultsOf(i) == {k \in 1..Len(results) : results[k].file = i}

\* C1: uploadFilesInBatches returns exactly one UploadResult per input file:
\* no file ever has two results, and at the return every file has one,
\* whether its stat failed, it was uploaded or its retries were exhausted.
C1_OneResultPerFile ==
  /\ \A i \in 1..Len(files) : Cardinality(ResultsOf(i)) <= 1
  /\ upPc = "returned" =>
       /\ Len(results) = Len(files)
       /\ \A i \in 1..Len(files) : Cardinality(ResultsOf(i)) = 1

\* a return after two workers ran, with an uploaded file and a file whose
\* retries were exhausted
C1_Witness ==
  /\ upPc = "returned"
  /\ Len(files) = MaxFiles
  /\ Len(wk) = 2
  /\ \E k \in 1..Len(results) : results[k].success
  /\ \E k \in 1..Len(results) :
       ~results[k].success /\ results[k].error.kind = "error"

\* C2: whenever a result has success = true, the file's content is stored
\* on the server at the place its remotePath names (targetPath joined with
\* the file's relative path).
C2_StoredAtRemotePath ==
  \A k \in 1..Len(results) :
    results[k].success =>
      [path |-> Resolve(results[k].name), content |-> results[k].file]
        \in remoteFiles

\* C3: each task index is claimed by at most one worker, no two running
\* workers hold the same index, and at the return every index was claimed
\* exactly once.
C3_ClaimedOnce ==
  /\ \A i \in DOMAIN claimCount : claimCount[i] <= 1
  /\ \A v, w \in DOMAIN wk :
       (v # w /\ wk[v].pc # "done" /\ wk[w].pc # "done")
         => wk[v].index # wk[w].index
  /\ upPc = "returned" => \A i \in DOMAIN claimCount : claimCount[i] = 1

\* two workers at work on two different tasks
C3_Witness ==
  /\ upPc = "running"
  /\ Len(wk) = 2
  /\ wk[1].pc = "uploadFrom"
  /\ wk[2].pc = "uploadFrom"
  /\ wk[1].index # wk[2].index

\* the attempts of task i so far: all failed but possibly the last
AttemptsInOrder(i) ==
  LET log == attemptLog[i]
  IN \A n \in 1..Len(log) :
       /\ log[n].attempt = n
       /\ (log[n].kind = "ok" => n = Len(log))

\* the result of task i, when it has one
ResultOfTask(i) ==
  results[CHOOSE k \in 1..Len(results) : results[k].file = tasks[i + 1].file]

\* C4: uploadFileWithRetry makes at most maxRetries attempts; when the
\* first k < maxRetries attempts fail and attempt k + 1 succeeds the result
\* is a success with retries = k; when all maxRetries attempts fail the
\* result is a failure with retries = maxRetries - 1 and the error of the
\* last attempt.
C4_RetrySemantics ==
  \A i \in DOMAIN attemptLog :
    LET log == attemptLog[i]
        n == Len(log)
    IN /\ n <= maxRetries
       /\ AttemptsInOrder(i)
       /\ (\E k \in 1..Len(results) : results[k].file = tasks[i + 1].file) =>
            LET r == ResultOfTask(i)
            IN /\ n >= 1
               /\ log[n].kind = "ok" =>
                    r.success /\ r.retries = n - 1 /\ r.error = NoError
               /\ log[n].kind # "ok" =>
                    /\ n = maxRetries
                    /\ ~r.success
                    /\ r.retries = maxRetries - 1
                    /\ r.error # NoError
                    /\ r.error = log[n]

\* a task that succeeded at its last allowed attempt, after failures
C4_Witness ==
  /\ maxRetries = MaxRetriesOpt
  /\ \E i \in DOMAIN attemptLog :
       /\ Len(attemptLog[i]) = maxRetries
       /\ attemptLog[i][maxRetries].kind = "ok"
       /\ \E k \in 1..Len(results) :
            results[k].file = tasks[i + 1].file /\ results[k].retries = maxRetries - 1

\* every task has reached a terminal state and every worker has stopped
AllTerminal ==
  /\ WorkersSettled(wk)
  /\ currentIndex >= Len(tasks)
  /\ Len(results) = Len(files)
  /\ \A k \in 1..Len(results) :
       \/ results[k].success
       \/ results[k].error.kind = "stat"
       \/ results[k].retries = maxRetries - 1

\* C5: when every network call and every sleep eventually returns or fails,
\* uploadFilesInBatches eventually returns, and when it returns every task
\* is terminal and every worker has stopped.
C5_ReturnsWhenAllTerminal ==
  /\ <>(upPc = "returned")
  /\ [](upPc = "returned" => AllTerminal)

\* a return after two workers ran and one task exhausted its retries
C5_Witness ==
  /\ upPc = "returned"
  /\ Len(wk) = 2
  /\ Len(tasks) = 2
  /\ \E k \in 1..Len(results) :
       ~results[k].success /\ results[k].retries = maxRetries - 1
         /\ results[k].error.kind = "error"

\* some destination's result counts failed files
SomeTargetFailed == \E i \in 1..Len(deployResults) : deployResults[i].failedCount > 0

\* C6: when the connection to a selected destination fails after all
\* retries, that destination's result has failedCount > 0 and its error
\* set, the loop goes on with the other destinations, and deployToFtp
\* returns one result per selected destination, in selection order.
C6_ConnectFailureIsolated ==
  /\ (tgPc = "returned" /\ pre.connectFailed) =>
       /\ tgResult.failedCount > 0
       /\ tgResult.error = "connect"
       /\ tgResult.name = selectedConfigs[destIdx].name
  /\ \A i \in 1..Len(deployResults) :
       /\ deployResults[i].name = selectedConfigs[i].name
       /\ deployResults[i].error # "none" => deployResults[i].failedCount > 0
  /\ (dpPc = "loop" /\ tgPc = "idle") => Len(deployResults) = destIdx
  /\ (\E i \in 1..Len(deployResults) : deployResults[i].error = "connect") =>
       dpPc \in {"loop", "returned"}
  /\ dpPc = "returned" => Len(deployResults) = Len(selectedConfigs)

\* two destinations selected: the connection to the first failed, the
\* second was deployed in full afterwards
C6_Witness ==
  /\ dpPc = "returned"
  /\ Len(selectedConfigs) = 2
  /\ Len(deployResults) = 2
  /\ deployResults[1].error = "connect"
  /\ deployResults[1].failedCount > 0
  /\ deployResults[2].error = "none"
  /\ deployResults[2].totalFiles > 0
  /\ deployResults[2].failedCount = 0

\* C7: the closeBundle handler throws if and only if failOnError is true
\* and at least one DeploymentResult has failedCount > 0; with failOnError
\* false it never throws.
C7_ThrowsIffFailOnErrorAndFailed ==
  /\ hookPc = "threw" => (failOnError /\ SomeTargetFailed)
  /\ (hookPc = "done" /\ dpPc = "returned") => ~(failOnError /\ SomeTargetFailed)

\* C8: when the backup function of a destination throws, no upload worker
\* is started and no local file is transferred for that destination, and
\* the destination's result has failedCount > 0 and carries the error.
C8_BackupFailureAbortsUpload ==
  bk.pc = "threw" =>
    /\ upPc = "idle"
    /\ wk = <<>>
    /\ \A f \in remoteFiles : f.content < 0
    /\ tgPc \in {"backup", "returned"}
    /\ tgPc = "returned" =>
         /\ tgResult.failedCount > 0
         /\ tgResult.error = "backup"

\* the full backup threw after it had downloaded a file (the archiving or
\* the upload of the archive failed) and the destination has its result
C8_Witness ==
  /\ bk.pc = "threw"
  /\ bk.fn = "full"
  /\ bk.downloaded > 0
  /\ tgPc = "returned"
  /\ tgResult.error = "backup"

\* the backup function has finished, by return or by throw
BackupFinished == tgPc = "backup" /\ bk.pc \in {"returned", "threw"}

\* C9 as stated: on every exit path of createBackupFile and of
\* createSingleBackup the staging directory no longer exists when the
\* function has finished, and neither does the zip file.
C9_AlwaysRemoved == BackupFinished => (~staging /\ ~zipFile)

\* C9, amended: on every exit path the removal of the staging directory
\* and of the zip file is attempted; each is gone when the function has
\* finished unless its removal itself failed.
C9_RemovedUnlessRemovalFails ==
  BackupFinished =>
    /\ staging => bk.rmDirFailed
    /\ zipFile => bk.rmZipFailed

\* the full backup threw after a download and left nothing behind
C9_Witness ==
  /\ BackupFinished
  /\ bk.pc = "threw"
  /\ bk.fn = "full"
  /\ bk.downloaded > 0
  /\ ~staging
  /\ ~zipFile

\* C10: whenever deploySingleTarget has finished, the preflight session and
\* every worker session of that destination are closed.
C10_SessionsClosed == tgPc \in {"idle", "returned"} => openSessions = {}

\* a destination finished after a backup and a complete upload, with
\* every session closed
C10_Witness ==
  /\ tgPc = "returned"
  /\ tgResult.error = "none"
  /\ tgResult.totalFiles > 0
  /\ tgResult.failedCount = 0
  /\ bk.pc = "returned"
  /\ openSessions = {}

\* one step of a connectWithRetry call, seen on the caller's variables:
\* a, b are the caller's locals before and after the step, pa, pb its
\* positions, after the positions the call returns to, thrown the error
\* the caller receives when the call throws
ConnectStep(a, b, pa, pb, connectedB, after, thrown) ==
  /\ pa \in {"access", "connectSleep"} => a.connAttempt \in 1..maxRetries
  /\ (pb = "access" /\ pa # "connectSleep") => b.connAttempt = 1
  /\ (pa = "access" /\ pb = "connectSleep") =>
       /\ a.connAttempt < maxRetries
       /\ b.connAttempt = a.connAttempt
       /\ b.sleepMs = retryDelay * a.connAttempt
  /\ pa = "connectSleep" =>
       (pb = "access" /\ b.connAttempt = a.connAttempt + 1)
  /\ (pa = "access" /\ connectedB) => pb \in after
  /\ (pa = "access" /\ ~connectedB /\ pb # "connectSleep") =>
       /\ a.connAttempt = maxRetries
       /\ thrown = [kind |-> "connect", tries |-> maxRetries,
                    cause |-> [kind |-> "access", attempt |-> maxRetries]]

\* C11: connectWithRetry makes the attempts 1..maxRetries in order and
\* stops at the first success; after a failed attempt n < maxRetries it
\* sleeps retryDelay * n, after the last failed attempt it does not sleep
\* but throws an error that embeds the error of that attempt.  Stated for
\* the preflight client's call and for every worker's calls.
C11_ConnectWithRetry ==
  [][/\ tgPc' # tgPc =>
          ConnectStep(pre, pre', tgPc, tgPc', PreSession \in openSessions',
                      {"ensureDir"}, pre'.thrown)
     /\ \A w \in DOMAIN wk' :
          IF w \in DOMAIN wk
            THEN wk'[w] # wk[w] =>
                   ConnectStep(wk[w], wk'[w], wk[w].pc, wk'[w].pc,
                               wk'[w].connected, {"ensureDir", "uploadFrom"},
                               wk'[w].caught)
            ELSE wk'[w].pc = "access" => wk'[w].connAttempt = 1]_vars

\* the preflight call threw after maxRetries = 3 attempts, and a worker is
\* in the sleep that follows its second failed attempt
C11_Witness ==
  /\ maxRetries = 3
  /\ Len(deployResults) = 1
  /\ deployResults[1].error = "connect"
  /\ upPc = "running"
  /\ wk[1].pc = "connectSleep"
  /\ wk[1].connAttempt = 2
  /\ wk[1].sleepMs = 2 * retryDelay

\* the workers that have not returned
LiveWorkers == {w \in DOMAIN wk : wk[w].pc # "done"}

\* C12: each upload worker uses only the session it created: the sessions
\* of two workers differ, a worker's session is open exactly while that
\* worker holds itself connected (no other worker opens or closes it), and
\* the open worker sessions are as many as the connected workers.
C12_PrivateSessions ==
  /\ \A v, w \in DOMAIN wk : v # w => SessionOf(v) # SessionOf(w)
  /\ \A w \in LiveWorkers : wk[w].connected <=> SessionOf(w) \in openSessions
  /\ Cardinality(openSessions \ {PreSession})
       = Cardinality({w \in LiveWorkers : wk[w].connected})

\* two workers, one connected and uploading, the other one disconnected by
\* a failed attempt of its own
C12_Witness ==
  /\ upPc = "running"
  /\ Len(wk) = 2
  /\ wk[1].pc = "uploadFrom"
  /\ wk[1].connected
  /\ wk[2].pc = "retrySleep"
  /\ SessionOf(1) \in openSessions
  /\ SessionOf(2) \notin openSessions

\* the results that are failures, the bytes and the retries of the results
FailedResults == SelectSeq(results, LAMBDA r : ~r.success)
SizesOfSuccesses ==
  [k \in 1..Len(results) |-> IF results[k].success THEN results[k].size ELSE 0]
RetriesOfResults == [k \in 1..Len(results) |-> results[k].retries]

\* C13: at every suspension point the counters agree with the results:
\* completed is the number of results, failed the number of unsuccessful
\* ones, uploadedBytes the sum of the sizes of the successful ones, retries
\* the sum of the retries of the results (a stat failure carries 0);
\* completed never decreases, never exceeds the number of input files and
\* equals it when the scheduler has returned.
C13_CountersAgree ==
  /\ [](upPc \in {"running", "returned"} =>
          /\ completed = Len(results)
          /\ failed = Len(FailedResults)
          /\ uploadedBytes = SumSeq(SizesOfSuccesses)
          /\ retries = SumSeq(RetriesOfResults)
          /\ completed <= Len(files)
          /\ (upPc = "returned" => completed = Len(files)))
  /\ [][completed' >= completed]_vars

\* one task uploaded after a retry, one given up: every counter is non-zero
C13_Witness ==
  /\ upPc = "returned"
  /\ completed = 2
  /\ failed = 1
  /\ uploadedBytes > 0
  /\ retries >= 2
  /\ \E k \in 1..Len(results) : results[k].success /\ results[k].retries = 1

\* C14: when the source root holds zero local files, every destination's
\* result is {totalFiles: 0, failedCount: 0} and the run makes no connection
\* attempt, no remote listing, no backup and no upload.
C14_EmptySourceNoNetwork ==
  (outDirReadable /\ localFiles = <<>>) =>
     /\ pre = NewPre
     /\ openSessions = {}
     /\ listing = <<>>
     /\ bk = NoBackup
     /\ upPc = "idle"
     /\ wk = <<>>
     /\ remoteFiles = {}
     /\ tgPc \in {"idle", "returned"}
     /\ tgPc = "returned" => (tgResult.totalFiles = 0 /\ tgResult.failedCount = 0)
     /\ \A k \in 1..Len(deployResults) :
          deployResults[k].totalFiles = 0 /\ deployResults[k].failedCount = 0

\* two destinations deployed from an empty source root
C14_Witness ==
  /\ outDirReadable
  /\ localFiles = <<>>
  /\ dpPc = "returned"
  /\ Len(deployResults) = 2
  /\ deployResults[2].totalFiles = 0
  /\ deployResults[2].failedCount = 0

\* a destination with all three required fields
Usable(config) == config.host /\ config.user /\ config.password

\* whether any network or backup activity exists for the current destination
NoNetworkActivity ==
  /\ pre = NewPre
  /\ openSessions = {}
  /\ listing = <<>>
  /\ bk = NoBackup
  /\ upPc = "idle"
  /\ wk = <<>>
  /\ remoteFiles = {}

\* C15: no network I/O is attempted against a destination whose host, user
\* or password is empty: deployToFtp selects only usable destinations, and
\* deploySingleTarget given an unusable one returns a result with
\* failedCount > 0 without creating a session.
C15_UnusableNeverContacted ==
  /\ hookPc # "direct" => \A k \in 1..Len(selectedConfigs) : Usable(selectedConfigs[k])
  /\ (destIdx > 0 /\ ~Usable(selectedConfigs[destIdx])) =>
        /\ NoNetworkActivity
        /\ tgPc \in {"idle", "returned"}
        /\ tgPc = "returned" => tgResult.failedCount > 0
        /\ tgPc = "idle" =>
             /\ Len(deployResults) = destIdx
             /\ deployResults[destIdx].failedCount > 0
             /\ deployResults[destIdx].totalFiles = 0

\* deploySingleTarget was given a destination without host and has returned
C15_Witness ==
  /\ hookPc = "direct"
  /\ ~selectedConfigs[1].host
  /\ selectedConfigs[1].password
  /\ localFiles # <<>>
  /\ Len(deployResults) = 1
  /\ deployResults[1].failedCount = 1
  /\ openSessions = {}

\* C16: the destinations are deployed one after another: destination i + 1
\* begins only when the result of destination i is in deployResults, with no
\* session open and nothing running, so every open session and every
\* running transfer belongs to the one destination being deployed.
C16_DestinationsSequential ==
  /\ [](/\ \A s \in openSessions : s[1] = destIdx
        /\ Len(deployResults) \in {destIdx - 1, destIdx}
        /\ Len(deployResults) = destIdx =>
             /\ openSessions = {}
             /\ tgPc = "idle"
             /\ upPc # "running")
  /\ [][destIdx' # destIdx =>
          /\ destIdx' = destIdx + 1
          /\ Len(deployResults) = destIdx
          /\ openSessions = {}
          /\ tgPc = "idle"
          /\ upPc # "running"]_vars

\* the second destination is uploading after the first one's result
C16_Witness ==
  /\ destIdx = 2
  /\ Len(deployResults) = 1
  /\ deployResults[1].totalFiles = 1
  /\ upPc = "running"
  /\ SessionOf(1) \in openSessions

\* C17: the scheduler launches max(1, min(concurrency, number of stat-able
\* tasks)) workers; with zero stat-able tasks the one worker claims no task
\* and makes no connection attempt, and the scheduler returns exactly the
\* stat-failure results.
C17_WorkersLaunched ==
  upPc \in {"running", "returned"} =>
    /\ Len(wk) = Max(1, Min(concurrency, Len(tasks)))
    /\ Len(tasks) = 0 =>
         /\ Len(wk) = 1
         /\ wk[1].pc = "done"
         /\ wk[1].connAttempt = 0
         /\ ~wk[1].connected
         /\ claimCount = <<>>
         /\ attemptLog = <<>>
         /\ openSessions \subseteq {PreSession}
         /\ remoteFiles = {}
         /\ Len(results) = Len(files)
         /\ \A k \in 1..Len(results) : results[k] = StatFailedResult(k)

\* two files whose stat failed: one idle worker, two stat-failure results
C17_Witness ==
  /\ upPc = "returned"
  /\ concurrency = 2
  /\ Len(files) = 2
  /\ Len(tasks) = 0
  /\ Len(wk) = 1
  /\ Len(results) = 2
  /\ failed = 2

\* one stat-able task of two files under concurrency 2: one worker
C17_WitnessClamped ==
  /\ upPc = "running"
  /\ concurrency = 2
  /\ Len(files) = 2
  /\ Len(tasks) = 1
  /\ Len(wk) = 1

\* the files of the selective backup that fail in this step
NewlyFailed == {j \in DOMAIN bk'.sb : j \in DOMAIN bk.sb /\ bk'.sb[j] = "failed"
                                       /\ bk.sb[j] # "failed"}

\* a file of the selective backup fails only when its own running transfer
\* fails, and that failure touches no other file and leaves the session usable
SingleFailureIsOwn ==
  [][\A j \in NewlyFailed :
        /\ bk.sb[j] \in {"downloading", "uploading"}
        /\ \A k \in DOMAIN bk.sb : k # j => bk'.sb[k] = bk.sb[k]
        /\ ~pre'.closedByError]_vars

\* no failure inside a batch makes createSingleBackup throw
SingleBatchNeverThrows ==
  [][(bk.fn = "single" /\ bk.pc = "batch") => bk'.pc # "threw"]_vars

\* after createSingleBackup has returned the main upload starts
UploadFollowsSingleBackup ==
  [][(tgPc = "backup" /\ bk.fn = "single" /\ bk.pc = "returned" /\ tgPc' # tgPc)
        => (tgPc' = "upload" /\ upPc' = "stat")]_vars

\* C18: in a selective backup the failure of one file's download or
\* re-upload does not prevent the download and re-upload of any other
\* eligible file and does not make createSingleBackup throw; the main
\* upload runs afterwards.
C18_SingleFailureIsolated ==
  /\ SingleFailureIsOwn
  /\ SingleBatchNeverThrows
  /\ UploadFollowsSingleBackup

\* the names of a sequence
Range(s) == {s[i] : i \in 1..Len(s)}

\* C19: a selective backup transfers exactly the requested names that the
\* remote listing holds: a requested name that is missing gets no transfer
\* and raises no error, and when no requested name exists the backup makes
\* no transfer, returns normally and the main upload follows.
C19_OnlyExistingNames ==
  /\ []((tgPc = "backup" /\ bk.fn = "single" /\ bk.pc \in {"batch", "returned"}) =>
          /\ Range(bk.queue) = Range(singleBackFiles) \cap Range(listing)
          /\ DOMAIN bk.sb = DOMAIN bk.queue
          /\ bk.queue = <<>> =>
               /\ bk.pc = "returned"
               /\ pre.busy = 0
               /\ ~pre.closedByError
               /\ PreSession \in openSessions
               /\ remoteFiles = {})
  /\ [][(tgPc = "backup" /\ bk.fn = "single" /\ bk.pc = "list"
           /\ Range(singleBackFiles) \cap Range(listing) = {} /\ bk'.pc # "list")
          => \/ bk'.pc = "returned" /\ bk'.queue = <<>>
             \/ bk'.pc = "threw" /\ bk'.queue = <<>>]_vars
  /\ [][(tgPc = "backup" /\ bk.fn = "single" /\ bk.pc = "returned"
           /\ bk.queue = <<>> /\ tgPc' # tgPc)
          => (tgPc' = "upload" /\ upPc' = "stat")]_vars

\* of two requested names only index.html exists remotely and was backed up
C19_Witness ==
  /\ tgPc = "backup"
  /\ bk.fn = "single"
  /\ bk.pc = "returned"
  /\ singleBackFiles = <<"index.html", "app.js">>
  /\ "app.js" \notin Range(listing)
  /\ bk.queue = <<"index.html">>
  /\ bk.sb = <<"ok">>
  /\ bk.backedUpCount = 1

\* no requested name exists in a non-empty remote listing: the backup has
\* returned without a transfer
C19_WitnessNoneExists ==
  /\ tgPc = "backup"
  /\ bk.fn = "single"
  /\ bk.pc = "returned"
  /\ listing # <<>>
  /\ Range(singleBackFiles) \cap Range(listing) = {}
  /\ bk.queue = <<>>
  /\ bk.sb = <<>>

\* C20: a full backup that has downloaded zero remote files does not go on
\* to packaging or to the upload of an archive: no archive file is created
\* and none is stored in the remote target directory.
C20_EmptyBackupSkipsArchive ==
  (tgPc = "backup" /\ bk.fn = "full" /\ bk.downloaded = 0) =>
     /\ bk.pc \notin {"zip", "uploadZip"}
     /\ ~zipFile
     /\ \A f \in remoteFiles : f.path # ArchivePath

Digits == {"0", "1", "2", "3", "4", "5", "6", "7", "8", "9"}

\* the name has the form backup_<8 digits>_<6 digits>.zip
IsPriorArchive(name) ==
  LET c == Chars(name)
  IN /\ Len(c) = 26
     /\ SubSeq(c, 1, 7) = <<"b","a","c","k","u","p","_">>
     /\ \A i \in 8..15 : c[i] \in Digits
     /\ c[16] = "_"
     /\ \A i \in 17..22 : c[i] \in Digits
     /\ SubSeq(c, 23, 26) = <<".","z","i","p">>

\* the paths, relative to the target directory, of the regular files of the
\* remote tree that are not prior archives
RemoteTreeFiles ==
  {<<n>> : n \in {m \in Range(listing) : TypeOf(m) = 1 /\ ~IsPriorArchive(m)}}
  \cup UNION {{<<d, f>> : f \in Range(DirEntries(d))} :
                d \in {m \in Range(listing) : TypeOf(m) = 2}}

\* the full backup has listed the target directory and chosen its downloads
FullBackupPlans ==
  /\ tgPc = "backup" /\ bk.fn = "full" /\ bk.pc = "list"
  /\ bk'.pc \in {"download", "zip"}

\* C21: a full backup covers the whole remote tree: every regular file under
\* the target directory, at any depth, except prior backup archives and
\* symbolic links, is downloaded and is in the uploaded archive.
C21_FullBackupCoversTree ==
  /\ [][FullBackupPlans =>
          {<<n>> : n \in Range(bk'.queue)} = RemoteTreeFiles]_vars
  /\ []((tgPc = "backup" /\ bk.fn = "full" /\ bk.pc \in {"zip", "uploadZip"})
          => bk.downloaded = Cardinality(RemoteTreeFiles))

\* C22: a full backup skips a remote entry as a prior archive exactly when
\* its name has the form backup_<8 digits>_<6 digits>.zip; skipped entries
\* stay on the server untouched and every other regular file of the target
\* directory is downloaded.
C22_SkipsExactlyPriorArchives ==
  [][FullBackupPlans =>
       /\ \A n \in Range(listing) :
            TypeOf(n) = 1 => (n \in Range(bk'.queue) <=> ~IsPriorArchive(n))
       /\ listing' = listing]_vars

\* the upload confirmation was asked and declined (with options that passed
\* validateOptions the answer yes always selects or offers a destination)
Declined == ~autoUpload /\ dpPc = "returned" /\ selectedConfigs = <<>>

\* C23: when the user declines the upload confirmation the engine makes no
\* connection attempt, no backup and no upload, and the closeBundle handler
\* returns without throwing, whatever failOnError is.
C23_DeclineIsNoOp ==
  /\ [](Declined =>
          /\ NoNetworkActivity
          /\ deployResults = <<>>
          /\ destIdx = 0
          /\ tgPc = "idle"
          /\ hookPc \in {"running", "done"})
  /\ [][(dpPc = "promptUpload" /\ dpPc' = "returned") =>
          (selectedConfigs' = <<>> /\ deployResults' = <<>>)]_vars
  /\ [][(Declined /\ hookPc' # hookPc) => hookPc' = "done"]_vars

\* declined under failOnError: the handler has returned normally
C23_Witness ==
  /\ Declined
  /\ failOnError
  /\ upload
  /\ hookPc = "done"

\* the options have one of the problems validateOptions is to report
OptionProblem ==
  \/ (uploadPath.segs = <<>> /\ ~uploadPath.abs)
  \/ maxRetries < 1
  \/ retryDelay < 0
  \/ concurrency < 1
  \/ /\ ~isMultiFtp
     /\ ~Usable(ftpConfigs[1])
  \/ /\ isMultiFtp
     /\ \/ ftpConfigs = <<>>
        \/ \A i \in 1..Len(ftpConfigs) : ~Usable(ftpConfigs[i])
        \/ defaultFtp # "" /\ \A i \in 1..Len(ftpConfigs) : ftpConfigs[i].name # defaultFtp

\* C24: with an option problem, with open false, or after a build that
\* ended with an error, the closeBundle handler issues no prompt and
\* performs no network activity.
C24_InvalidOptionsNoActivity ==
  (OptionProblem \/ ~open \/ buildFailed) =>
     /\ dpPc = "idle"
     /\ tgPc = "idle"
     /\ hookPc \notin {"running", "threw"}
     /\ selectedConfigs = <<>>
     /\ deployResults = <<>>
     /\ NoNetworkActivity

\* the handler has returned for options whose only problem is retryDelay < 0
C24_Witness ==
  /\ hookPc = "done"
  /\ open
  /\ ~buildFailed
  /\ autoUpload
  /\ retryDelay < 0
  /\ maxRetries >= 1
  /\ concurrency >= 1
  /\ uploadPath.abs
  /\ ~isMultiFtp
  /\ Usable(ftpConfigs[1])
  /\ localFiles # <<>>

\* the string has two separators in a row
HasRepeatedSlash(s) == \E i \in 1..(Len(s) - 1) : s[i] = "/" /\ s[i + 1] = "/"

\* C25: normalizeRemotePath returns a path without repeated separators that
\* starts with '/' exactly when targetRoot does; ("/a/b", "c/d.txt") gives
\* "/a/b/c/d.txt", ("a/b", "c/d.txt") gives "a/b/c/d.txt", and collapsing
\* the separators of the result again leaves it unchanged.
C25_NormalizeRemotePath ==
  /\ pathPc = "returned" =>
       /\ ~HasRepeatedSlash(pathOut)
       /\ startsWith(pathOut, <<"/">>) <=> startsWith(pathDir, <<"/">>)
       /\ CollapseSlashes(pathOut) = pathOut
       /\ pathOut = normalizeRemotePath(pathDir, pathRel)
  /\ normalizeRemotePath(<<"/", "a", "/", "b">>, <<"c", "/", "d", ".", "t", "x", "t">>)
       = <<"/", "a", "/", "b", "/", "c", "/", "d", ".", "t", "x", "t">>
  /\ normalizeRemotePath(<<"a", "/", "b">>, <<"c", "/", "d", ".", "t", "x", "t">>)
       = <<"a", "/", "b", "/", "c", "/", "d", ".", "t", "x", "t">>

\* a relative root and a relative path that begins with separators
C25_Witness ==
  /\ pathPc = "returned"
  /\ pathDir = <<>>
  /\ pathRel = <<"/", "/", "a">>
  /\ pathOut = <<"a">>

\* an absolute root with repeated separators
C25_WitnessAbsolute ==
  /\ pathPc = "returned"
  /\ pathDir = <<"/", "/", "a">>
  /\ pathRel = <<"/", "a", "/">>
  /\ pathOut = <<"/", "a", "/", "a", "/">>

\* no upload attempt has failed so far
NoAttemptFailed ==
  \A i \in DOMAIN attemptLog :
    \A k \in 1..Len(attemptLog[i]) : attemptLog[i][k].kind # "error"

\* C26: ensureConnected is idempotent: a worker whose connection flag is
\* set starts no handshake, a worker whose flag is not set starts exactly
\* one connectWithRetry; so between two failed attempts a worker makes at
\* most one successful handshake, and a worker that has uploaded its tasks
\* without any failure has made exactly one.
C26_EnsureConnectedIdempotent ==
  /\ [](\A w \in DOMAIN wk :
          /\ wk[w].handshakes <= 1
          /\ wk[w].connected <=> wk[w].handshakes = 1
          /\ wk[w].pc \in {"ensureDir", "uploadFrom"} => wk[w].connected
          /\ wk[w].pc \in {"access", "connectSleep"} => ~wk[w].connected
          /\ (NoAttemptFailed /\ wk[w].pc = "done" /\ wk[w].attempt > 0)
               => wk[w].handshakes = 1)
  /\ [][\A w \in DOMAIN wk' :
          (w \in DOMAIN wk /\ wk'[w].attempt > 0
             /\ (wk'[w].attempt # wk[w].attempt \/ wk'[w].index # wk[w].index))
            => IF wk[w].connected /\ wk[w].pc = "resolved"
                 THEN /\ wk'[w].pc \in {"ensureDir", "uploadFrom", "done"}
                      /\ wk'[w].handshakes = wk[w].handshakes
                 ELSE wk'[w].pc \in {"access", "done"} /\ wk'[w].connAttempt <= 1]_vars

\* one worker has uploaded two tasks in a row over one handshake
C26_Witness ==
  /\ upPc = "returned"
  /\ Len(wk) = 1
  /\ Len(tasks) = 2
  /\ NoAttemptFailed
  /\ failed = 0
  /\ wk[1].handshakes = 1

\* the tasks in flight: claimed, and without a result in the results list
InFlight ==
  {i \in DOMAIN claimCount :
     claimCount[i] > 0 /\ ResultsOf(tasks[i + 1].file) = {}}

\* C27: each worker has at most one task in flight: it claims its next index
\* only when its previous task has its terminal result and that result is
\* in the results list; so the tasks in flight are the current tasks of the
\* workers that have not returned, never more than the workers.
C27_OneTaskPerWorker ==
  /\ [](upPc \in {"running", "returned"} =>
          /\ Cardinality(InFlight) <= Len(wk)
          /\ InFlight = {wk[w].index : w \in LiveWorkers}
          /\ \A v, w \in LiveWorkers : v # w => wk[v].index # wk[w].index)
  /\ [][\A w \in DOMAIN wk' :
          (w \in DOMAIN wk /\ wk[w].pc # "done"
             /\ (wk'[w].index # wk[w].index \/ wk'[w].pc = "done"))
            => /\ wk[w].pc = "resolved"
               /\ wk[w].result # NoResult
               /\ results' = Append(results, wk[w].result)
               /\ wk[w].result.file = tasks[wk[w].index + 1].file
               /\ wk[w].index \notin InFlight']_vars

\* two workers, each with its own task in flight, one task still unclaimed
C27_Witness ==
  /\ upPc = "running"
  /\ Len(wk) = 2
  /\ Len(tasks) = 2
  /\ Cardinality(InFlight) = 2
  /\ wk[1].pc = "uploadFrom"
  /\ wk[2].pc = "access"

\* a worker has taken its second task after the result of its first one
C27_WitnessNextTask ==
  /\ upPc = "running"
  /\ Len(wk) = 1
  /\ Len(tasks) = 2
  /\ Len(results) = 1
  /\ wk[1].index = 1
  /\ InFlight = {1}

\* worker w's upload attempt fails in this step
AttemptFails(w) ==
  /\ w \in DOMAIN wk
  /\ wk[w].caught = NoCaught
  /\ wk'[w].caught # NoCaught

\* C28: a failed upload attempt n of a task leaves the worker disconnected
\* with its session closed; when n < maxRetries the worker then sleeps
\* retryDelay * n and the next attempt starts with a new handshake before
\* any directory or upload operation; when n = maxRetries it does not sleep.
C28_FailedAttemptSequence ==
  /\ [][\A w \in DOMAIN wk' :
          /\ AttemptFails(w) =>
               /\ ~wk'[w].connected
               /\ wk'[w].ensuredDirs = {}
               /\ SessionOf(w) \notin openSessions'
               /\ wk'[w].attempt = wk[w].attempt
               /\ IF wk[w].attempt < maxRetries
                    THEN /\ wk'[w].pc = "retrySleep"
                         /\ wk'[w].sleepMs = retryDelay * wk[w].attempt
                    ELSE /\ wk'[w].pc = "resolved"
                         /\ wk'[w].sleepMs = 0
                         /\ ~wk'[w].result.success
          /\ (w \in DOMAIN wk /\ wk[w].pc = "retrySleep" /\ wk'[w] # wk[w]) =>
               /\ wk'[w].pc = "access"
               /\ wk'[w].attempt = wk[w].attempt + 1
               /\ wk'[w].connAttempt = 1
               /\ ~wk'[w].connected
               /\ SessionOf(w) \notin openSessions']_vars
  /\ [](\A w \in DOMAIN wk :
          /\ wk[w].pc \in {"ensureDir", "uploadFrom"} =>
               (wk[w].connected /\ SessionOf(w) \in openSessions)
          /\ wk[w].pc = "retrySleep" =>
               (wk[w].attempt < maxRetries /\ SessionOf(w) \notin openSessions))

\* the worker sleeps 2 * retryDelay after its second failed attempt of three
C28_Witness ==
  /\ upPc = "running"
  /\ maxRetries = 3
  /\ wk[1].pc = "retrySleep"
  /\ wk[1].attempt = 2
  /\ wk[1].caught = TransferError
  /\ wk[1].sleepMs = 2 * retryDelay
  /\ ~wk[1].connected
  /\ SessionOf(1) \notin openSessions

\* the second attempt of a task is at its handshake after a failed transfer
C28_WitnessRetry ==
  /\ upPc = "running"
  /\ wk[1].pc = "access"
  /\ wk[1].attempt = 2
  /\ wk[1].connAttempt = 1
  /\ attemptLog[wk[1].index] # <<>>
  /\ SessionOf(1) \notin openSessions

\* the last attempt has failed: the failed result without a sleep
C28_WitnessLast ==
  /\ upPc = "running"
  /\ wk[1].pc = "resolved"
  /\ wk[1].attempt = maxRetries
  /\ wk[1].caught = TransferError
  /\ wk[1].sleepMs = 0
  /\ ~wk[1].result.success

\* the operations (ensureDir, list, download, upload) that have been called
\* on the preflight session and have not settled
PreflightOps ==
  (IF tgPc \in {"ensureDir", "list"} THEN 1 ELSE 0)
  + (IF tgPc = "backup" /\ bk.pc \in {"list", "download", "uploadZip"}
       THEN 1 ELSE 0)
  + (IF tgPc = "backup" /\ bk.pc = "batch"
       THEN Cardinality({i \in DOMAIN bk.sb :
                           bk.sb[i] \in {"download", "downloading",
                                         "upload", "uploading"}})
       ELSE 0)

\* the same for the session of worker w
WorkerOps(w) ==
  IF upPc = "running" /\ wk[w].pc \in {"ensureDir", "uploadFrom"} THEN 1 ELSE 0

\* C29: no session ever has more than one operation in flight, in any phase
\* of a destination's deployment.
C29_OneOperationPerSession ==
  /\ PreflightOps <= 1
  /\ \A w \in DOMAIN wk : WorkerOps(w) <= 1

\* every phase but the selective backup keeps to one operation per session
OneOperationOutsideSelectiveBackup ==
  ~(tgPc = "backup" /\ bk.fn = "single" /\ bk.pc = "batch") =>
     /\ PreflightOps <= 1
     /\ \A w \in DOMAIN wk : WorkerOps(w) <= 1

\* deploySingleTarget has not thrown, every returned result of a failed
\* step counts at least one failure, and deployToFtp returns one result for
\* each selected destination
ErrorsBecomeFailedResults ==
  /\ dpPc # "threw"
  /\ tgPc = "returned" => (tgResult.error # "none" => tgResult.failedCount > 0)
  /\ \A k \in 1..Len(deployResults) :
       deployResults[k].error # "none" => deployResults[k].failedCount > 0
  /\ (dpPc = "returned" /\ selectedConfigs # <<>>) =>
       Len(deployResults) = Len(selectedConfigs)

\* C30: every error raised while one destination is deployed (enumerating
\* the local files, connecting, ensuring or listing the target directory,
\* the backup) ends as that destination's failed DeploymentResult:
\* deploySingleTarget never throws and the remaining destinations are
\* still deployed.
C30_DeploySingleTargetNeverThrows == ErrorsBecomeFailedResults

\* with an output directory that can be enumerated the errors of a
\* destination do end as its failed result
NeverThrowsWhenOutDirReadable == outDirReadable => ErrorsBecomeFailedResults

\* C31: for one destination, an empty listing of the remote target directory
\* leads straight to the upload with no backup operation (no prompt, no
\* download, no archive, no backup upload); a non-empty one leads to the
\* prompt or the backup, and every backup operation is over before the
\* first upload worker issues its first operation.
C31_BackupBeforeUpload ==
  /\ [][(tgPc = "list" /\ tgPc' \notin {"list", "returned"}) =>
          IF listing' = <<>>
            THEN /\ tgPc' = "upload"
                 /\ upPc' = "stat"
                 /\ bk' = NoBackup
                 /\ ~staging'
                 /\ ~zipFile'
                 /\ remoteFiles' = {}
            ELSE tgPc' \in {"promptBackup", "backup"}]_vars
  /\ [](tgPc \in {"promptBackup", "backup"} =>
          /\ listing # <<>>
          /\ upPc \notin {"stat", "running"}
          /\ openSessions \subseteq {PreSession})
  /\ [](upPc \in {"stat", "running"} =>
          /\ tgPc = "upload"
          /\ bk.pc \in {"idle", "returned"}
          /\ bk.sb = <<>>
          /\ bk.queue = <<>>
          /\ PreflightOps = 0
          /\ pre.busy = 0)

\* the archive of a full backup is on the server and the first worker is
\* at its first operation
C31_Witness ==
  /\ tgPc = "upload"
  /\ upPc = "running"
  /\ bk.fn = "full"
  /\ bk.pc = "returned"
  /\ \E f \in remoteFiles : f.path = ArchivePath /\ f.content = -2
  /\ wk[1].pc = "access"
  /\ wk[1].attempt = 1
  /\ wk[1].connAttempt = 1

\* the remote directory of worker w's current task
RemoteDirOf(w) == dirname(TaskOf(w).remotePath)

\* C32: a worker's ensuredDirs cache holds only directories ensured on its
\* current session since its last successful connect: a directory enters it
\* only when an ensureDir on the connected session succeeds, the cache is
\* empty whenever the worker is disconnected, and after a reconnect the
\* parent directory of the task is ensured again before the upload into it.
C32_EnsuredDirsPerSession ==
  /\ [](\A w \in LiveWorkers :
          /\ ~wk[w].connected => wk[w].ensuredDirs = {}
          /\ wk[w].pc = "uploadFrom" => RemoteDirOf(w) \in wk[w].ensuredDirs)
  /\ [][\A w \in DOMAIN wk' :
          w \in DOMAIN wk =>
            /\ ~(wk'[w].ensuredDirs \subseteq wk[w].ensuredDirs) =>
                 /\ wk[w].pc = "ensureDir"
                 /\ wk[w].connected
                 /\ wk'[w].connected
                 /\ SessionOf(w) \in openSessions
                 /\ wk'[w].ensuredDirs = wk[w].ensuredDirs \cup {RemoteDirOf(w)}
            /\ (wk[w].connected /\ ~wk'[w].connected /\ wk'[w].pc # "done") =>
                 wk'[w].ensuredDirs = {}
            /\ (wk[w].pc = "access" /\ wk'[w].connected) =>
                 (wk'[w].pc = "ensureDir" /\ wk'[w].ensuredDirs = {})]_vars

\* after a failed transfer and a reconnect the directory has been ensured
\* again and the second attempt is at its upload
C32_Witness ==
  /\ upPc = "running"
  /\ wk[1].pc = "uploadFrom"
  /\ wk[1].attempt = 2
  /\ wk[1].connected
  /\ wk[1].ensuredDirs = {RemoteDirOf(1)}
  /\ Len(attemptLog[wk[1].index]) = 1

\* C33: uploadFilesInBatches never fails because of a transport error: a
\* connectWithRetry that gives up inside ensureConnected is one failed
\* attempt of the worker's current task and of no other task; the task gets
\* a failed result after maxRetries failed attempts, never more; the worker
\* then claims the next remaining task, and the scheduler returns a result
\* for every file.
C33_ConnectExhaustionIsOneAttempt ==
  /\ [][\A w \in DOMAIN wk' :
          /\ (AttemptFails(w) /\ wk'[w].caught.kind = "connect") =>
               /\ wk[w].pc = "access"
               /\ wk[w].connAttempt = maxRetries
               /\ attemptLog' = [attemptLog EXCEPT ![wk[w].index] =
                                   Append(@, [kind |-> "error",
                                              attempt |-> wk[w].attempt])]
               /\ wk'[w].index = wk[w].index
               /\ wk'[w].attempt = wk[w].attempt
               /\ results' = results
               /\ upPc' = "running"
               /\ IF wk[w].attempt < maxRetries
                    THEN wk'[w].pc = "retrySleep"
                    ELSE /\ wk'[w].pc = "resolved"
                         /\ ~wk'[w].result.success
                         /\ wk'[w].result.retries = maxRetries - 1
          /\ (w \in DOMAIN wk /\ wk[w].pc = "resolved" /\ wk'[w] # wk[w]) =>
               IF currentIndex < Len(tasks)
                 THEN wk'[w].index = currentIndex /\ wk'[w].pc # "done"
                 ELSE wk'[w].pc = "done"]_vars
  /\ [](\A i \in DOMAIN attemptLog : Len(attemptLog[i]) <= maxRetries)
  /\ [](\A k \in 1..Len(results) :
          (~results[k].success /\ results[k].error.kind # "stat") =>
             results[k].retries = maxRetries - 1)
  /\ [](upPc = "returned" => Len(results) = Len(files))
  /\ <>(upPc = "returned")

\* both attempts of a task ended in a connectWithRetry that gave up
C33_Witness ==
  /\ upPc = "running"
  /\ maxRetries = 2
  /\ wk[1].pc = "resolved"
  /\ wk[1].attempt = 2
  /\ wk[1].caught = ConnectError(2, 2)
  /\ Len(attemptLog[wk[1].index]) = 2
  /\ ~wk[1].result.success

\* after a task that failed, the same worker has uploaded the next one
C33_WitnessGoesOn ==
  /\ upPc = "returned"
  /\ Len(wk) = 1
  /\ Len(results) = 2
  /\ ~results[1].success
  /\ results[1].error.kind # "stat"
  /\ results[2].success

\* C34: the result deploySingleTarget returns for a configuration with all
\* required fields has failedCount = 0 exactly when no local file was found
\* or every local file found has a successful UploadResult; a missing
\* required field, a connect failure, a backup failure (any error caught by
\* the catch block) and any failed file give failedCount > 0; after the
\* upload phase failedCount is the number of failed UploadResults and
\* totalFiles the number of results.
C34_FailedCountMeaning ==
  [][(tgPc # "returned" /\ tgPc' = "returned") =>
       LET ftpConfig == selectedConfigs'[destIdx']
           uploaded == tgPc = "upload" /\ upPc = "returned"
       IN /\ tgResult'.failedCount = 0 <=>
               /\ validateFtpConfig(ftpConfig)
               /\ \/ localFiles = <<>>
                  \/ /\ uploaded
                     /\ \A i \in 1..Len(localFiles) :
                          \E k \in ResultsOf(i) : results[k].success
          /\ ~validateFtpConfig(ftpConfig) => tgResult'.failedCount > 0
          /\ tgResult'.error # "none" =>
               /\ ~uploaded
               /\ tgResult'.failedCount > 0
          /\ uploaded =>
               /\ files = localFiles
               /\ tgResult'.error = "none"
               /\ tgResult'.failedCount = Len(FailedResults)
               /\ tgResult'.totalFiles = Len(results)
               /\ FailedResults # <<>> => tgResult'.failedCount > 0
          /\ ~(uploaded \/ tgResult'.error # "none") =>
               \/ ~validateFtpConfig(ftpConfig)
               \/ localFiles = <<>>]_vars

\* a destination returned after its upload phase with a failed file
C34_Witness ==
  /\ tgPc = "returned"
  /\ validateFtpConfig(CurrentConfig)
  /\ tgResult.error = "none"
  /\ tgResult.totalFiles = 1
  /\ tgResult.failedCount = 1

\* a destination without a required field returned, no local file present
C34_WitnessMissingField ==
  /\ tgPc = "returned"
  /\ ~validateFtpConfig(CurrentConfig)
  /\ localFiles = <<>>
  /\ tgResult.failedCount = 1

\* a destination whose backup threw returned
C34_WitnessBackup ==
  /\ tgPc = "returned"
  /\ tgResult.error = "backup"
  /\ tgResult.failedCount = Len(localFiles)

====
